---- MODULE Spec2Model ----
(***************************************************************************)
(* Dependency-injection and service-lifecycle core of the application      *)
(* shell: Container, SingletonRegistry / SingletonFactory, ServiceRegistry,*)
(* ServiceDiscovery and FeatureManager (src/src/backend/core/di).          *)
(***************************************************************************)
EXTENDS Integers, Sequences, FiniteSets, TLC

\* ------------------------------------------------------------------------
\* Bounds of the model
\* ------------------------------------------------------------------------
\* how many objects the Container may construct in one behaviour
MaxNew == 2
\* how many SingletonFactory objects create_singleton_factory may build
MaxFactories == 2
\* how many instances the singleton factories may build in one behaviour
MaxBuilt == 2
\* how many register_features calls are made in one behaviour
MaxCalls == 2
\* how long a feature list given to register_features may be
MaxFeatures == 3
\* how many capabilities a service type may declare in __interfaces__
MaxDeclared == 2
\* how many times register_instance or the loading of a routes namespace
\* fails during feature registration in one behaviour
MaxFaults == 1
\* how many Application.start calls are made in one behaviour
MaxStarts == 2
\* how many threads call get_instance at the same time
MaxThreads == 2
\* how many members a namespace given to the service detector declares
MaxMembers == 3
\* Container objects, and ServiceRegistry objects, built in a process
MaxObjects == 2
\* FeatureManager objects built in a process
MaxManagers == 1
\* register_service and register_features calls made on those objects
MaxRegistrations == 1

\* ------------------------------------------------------------------------
\* Values
\* ------------------------------------------------------------------------
\* "not in the dict" for a table whose values are callables
None == "None"
\* "not in the dict" / "no object" for a table whose values are objects
NoObj == [id |-> 0, by |-> "none"]

\* capabilities (interface types) used as Container keys
Caps == {"IA", "IB"}
\* implementation classes handed to Container.register
Impls == {"ImplA", "ImplB"}
\* factory functions handed to Container.register_factory
FactoryFns == {"mk"}
\* feature namespaces: 'health' is the shipped feature (config/constants.py:47),
\* 'pair' declares two service types, 'bare' has no service module
Features == {"health", "pair", "bare"}
\* the service types of the namespaces
ServiceClasses == {"HealthService", "AlphaService", "BetaService"}
\* the capability types the service types inherit from
Interfaces == {"IHealthService", "IService"}
\* the endpoint classes of the routes namespaces: HealthRoutes
\* (features/health/routes.py:13), and three of the pair namespace
RouteClassNames == {"HealthRoutes", "AlphaRoutes", "BetaRoutes", "GammaRoutes"}
\* every type used as a Container key
Keys == Caps \cup ServiceClasses \cup Interfaces
\* an instance built by the caller and handed to Container.register_instance
Prebuilt == {[id |-> 91, by |-> "ext"]}

VARIABLES
    \* Container (container.py:40-44)
    services,      \* _services:   capability -> implementation class
    singletons,    \* _singletons: capability -> instance
    factories,     \* _factories:  capability -> callable
    nextId,        \* identity of the next object the Container constructs
    cLast,         \* the last Container call and what it returned
    regInst,       \* history: the instance last given to register_instance(c, .)
    builtSince,    \* history: objects resolve(c) constructed since register(c, ., True)
    wiped          \* history: the kinds of registration the last clear() dropped

VARIABLES
    \* SingletonFactory objects (singleton_factory.py:32-41), by identity
    sfFunc,        \* _factory_func of each SingletonFactory built so far
    sfInst,        \* _instance of each SingletonFactory (NoObj: None)
    \* SingletonRegistry (singleton_factory.py:60-62)
    regFactories,  \* _factories: name -> SingletonFactory identity (0: absent)
    sNextId,       \* identity of the next object a factory function builds
    sLast,         \* the last SingletonRegistry call and what it returned
    got,           \* history: objects get_instance(name) returned since the last reset
    cachedAtReg,   \* history: instance cached for name when register_factory replaced its factory
    dropped        \* history: the cached instances the last reset dropped

VARIABLES
    \* ServiceRegistry (registry.py:28-31) and FeatureManager (registry.py:244-247)
    registry,      \* ServiceRegistry._services: service name -> instance
    features,      \* FeatureManager._features: feature name -> record
    initialized,   \* the service instances whose _is_initialized is True
    routeVar,      \* the service variable set on a routes namespace, per service name
    endpoints,     \* how many objects of each endpoint class were built so far
    dNextId,       \* identity of the next service instance
    \* the register_features call in progress
    pc,            \* where the call stands
    fmList,        \* features of the list not yet completed (head: current)
    classList,     \* service types of the namespace not yet completed
    curInst,       \* service_instance of _register_service_class
    rfRet,         \* what the last register_features call returned
    discRet,       \* what the last discover_and_register_services call returned
    calls,         \* register_features calls made so far
    callList,      \* history: the list given to the call in progress
    attempted,     \* history: features whose discovery the call started
    instantiated,  \* history: service types the current discovery instantiated
    failAt,        \* history: where the current discovery failed
    ifLast,        \* the register_service_interfaces call made for the current service type
    rtLast,        \* what setup_routes did for the current service type
    faults,        \* failures of register_instance and of loading a module so far
    regOrder,      \* the keys of ServiceRegistry._services, in insertion order
    noModule,      \* history: features of the call in progress whose service module
                   \* could not be imported
    rtLog          \* history: the setup_routes calls of the call in progress, in order

VARIABLES
    \* Application (application.py:38-41) and the start call in progress
    appInit,       \* Application._is_initialized
    appPc,         \* where the start call stands
    startList,     \* feature_modules given to the start call
    startRet,      \* what the last start call returned
    startLog,      \* history: what the start call did so far, in order
    callsAtStart,  \* history: register_features calls made before the start call
    starts         \* start calls made so far

VARIABLES
    \* threads that call get_instance of a SingletonFactory at the same time
    tpc,           \* where each thread stands in get_instance
    tfid,          \* the SingletonFactory each thread calls (0: none yet)
    tobj,          \* what the factory function returned to the thread (NoObj: not called)
    tret           \* what get_instance returned to the thread (NoObj: not returned)

VARIABLES
    \* the detectors called on their own
    scanNs,        \* the namespace given to the last get_service_classes call
    scanRet,       \* what the call returned, and the member names it logged
    detCall        \* the last register_service_interfaces call of a manager with
                   \* the default strategy, and the instance table it left

VARIABLES
    \* the WebAPI singleton (api.py:24-31, 58-64) and its exposed endpoint
    apiApp,        \* WebAPI._application ("none": no WebAPI was built yet)
    apiRet         \* what the last get_features_status call of the frontend returned

VARIABLES
    \* the objects behind get_container() and get_service_registry(), by identity
    held,          \* the instance each of the two singleton factories holds (0: None)
    pContainers,   \* the Container objects built so far: their _singletons
    pRegistries,   \* the ServiceRegistry objects built so far: _container, _services
    pManagers,     \* the FeatureManager objects built so far: _service_registry, _features
    pNextId,       \* identity of the next service instance
    pCalls,        \* register_service and register_features calls made so far
    pLast          \* the last register_service or register_features call and
                   \* what it returned

cvars == <<services, singletons, factories, nextId, cLast, regInst, builtSince,
           wiped>>

svars == <<sfFunc, sfInst, regFactories, sNextId, sLast, got, cachedAtReg, dropped>>

dvars == <<registry, features, initialized, routeVar, endpoints, dNextId, pc,
           fmList, classList, curInst, rfRet, discRet, calls, callList,
           attempted, instantiated, failAt, ifLast, rtLast, faults, regOrder,
           noModule, rtLog>>

avars == <<appInit, appPc, startList, startRet, startLog, callsAtStart, starts>>

tvars == <<tpc, tfid, tobj, tret>>

\* the variables of the components the core does not drive
nvars == <<scanNs, scanRet, detCall>>

\* the variables of the web layer
wvars == <<apiApp, apiRet>>

\* the variables of the process-wide objects
pvars == <<held, pContainers, pRegistries, pManagers, pNextId, pCalls, pLast>>

ovars == <<avars, tvars, nvars, wvars, pvars>>

vars == <<cvars, svars, dvars, ovars>>

\* ------------------------------------------------------------------------
\* Container (container.py)
\* ------------------------------------------------------------------------
\* Container.__init__: three empty tables
ContainerInit ==
    /\ services = [c \in Keys |-> None]
    /\ singletons = [c \in Keys |-> NoObj]
    /\ factories = [c \in Keys |-> None]
    /\ nextId = 1
    /\ cLast = [op |-> "init", cap |-> "-", ret |-> NoObj, err |-> FALSE]
    /\ regInst = [c \in Keys |-> NoObj]
    /\ builtSince = [c \in Keys |-> 0]
    /\ wiped = {}

\* calling a class or a factory function builds a fresh object
Construct(k) == [id |-> nextId, by |-> k]

\* a register that also forgets the instance held for the capability
RegisterTablesEvict(c, impl, singleton) ==
    IF singleton
    THEN [svc |-> [services EXCEPT ![c] = impl],
          sng |-> [singletons EXCEPT ![c] = NoObj], fac |-> factories]
    ELSE [svc |-> services, sng |-> singletons,
          fac |-> [factories EXCEPT ![c] = impl]]

\* Container.register: the three tables after register(c, impl, singleton)
RegisterTables(c, impl, singleton) ==
    IF singleton
    THEN [svc |-> [services EXCEPT ![c] = impl], sng |-> singletons,
          fac |-> factories]
    ELSE [svc |-> services, sng |-> singletons,
          fac |-> [factories EXCEPT ![c] = impl]]

Register(c, impl, singleton) ==
    /\ services' = RegisterTables(c, impl, singleton).svc
    /\ singletons' = RegisterTables(c, impl, singleton).sng
    /\ factories' = RegisterTables(c, impl, singleton).fac
    /\ cLast' = [op |-> "register", cap |-> c, ret |-> NoObj, err |-> FALSE]
    /\ builtSince' = IF singleton THEN [builtSince EXCEPT ![c] = 0] ELSE builtSince
    /\ wiped' = {}
    /\ UNCHANGED <<nextId, regInst>>
    /\ UNCHANGED <<svars, dvars, ovars>>

\* Container.register_instance: the instance table after register_instance(c, x)
RegisterInstanceTable(c, x) == [singletons EXCEPT ![c] = x]

RegisterInstance(c, x) ==
    /\ singletons' = RegisterInstanceTable(c, x)
    /\ cLast' = [op |-> "register_instance", cap |-> c, ret |-> NoObj, err |-> FALSE]
    /\ regInst' = [regInst EXCEPT ![c] = x]
    /\ wiped' = {}
    /\ UNCHANGED <<services, factories, nextId, builtSince>>
    /\ UNCHANGED <<svars, dvars, ovars>>

\* Container.register_factory
RegisterFactoryTable(c, f) == [factories EXCEPT ![c] = f]

RegisterFactory(c, f) ==
    /\ factories' = RegisterFactoryTable(c, f)
    /\ cLast' = [op |-> "register_factory", cap |-> c, ret |-> NoObj, err |-> FALSE]
    /\ wiped' = {}
    /\ UNCHANGED <<services, singletons, nextId, regInst, builtSince>>
    /\ UNCHANGED <<svars, dvars, ovars>>

\* a resolve that looks at the factories before the instances and the classes
ResolveOutcomeFactoryFirst(c) ==
    IF factories[c] # None
    THEN [ret |-> Construct(factories[c]), err |-> FALSE,
          cache |-> singletons, made |-> 1]
    ELSE IF singletons[c] # NoObj
    THEN [ret |-> singletons[c], err |-> FALSE, cache |-> singletons, made |-> 0]
    ELSE IF services[c] # None
    THEN [ret |-> Construct(services[c]), err |-> FALSE,
          cache |-> [singletons EXCEPT ![c] = Construct(services[c])], made |-> 1]
    ELSE [ret |-> NoObj, err |-> TRUE, cache |-> singletons, made |-> 0]

\* a resolve that returns None for a capability no table holds
ResolveOutcomeDefault(c) ==
    IF singletons[c] # NoObj
    THEN [ret |-> singletons[c], err |-> FALSE, cache |-> singletons, made |-> 0]
    ELSE IF services[c] # None
    THEN [ret |-> Construct(services[c]), err |-> FALSE,
          cache |-> [singletons EXCEPT ![c] = Construct(services[c])], made |-> 1]
    ELSE IF factories[c] # None
    THEN [ret |-> Construct(factories[c]), err |-> FALSE,
          cache |-> singletons, made |-> 1]
    ELSE [ret |-> NoObj, err |-> FALSE, cache |-> singletons, made |-> 0]

\* a resolve that also keeps what a factory built as the instance
ResolveOutcomeCachesFactory(c) ==
    IF singletons[c] # NoObj
    THEN [ret |-> singletons[c], err |-> FALSE, cache |-> singletons, made |-> 0]
    ELSE IF services[c] # None
    THEN [ret |-> Construct(services[c]), err |-> FALSE,
          cache |-> [singletons EXCEPT ![c] = Construct(services[c])], made |-> 1]
    ELSE IF factories[c] # None
    THEN [ret |-> Construct(factories[c]), err |-> FALSE,
          cache |-> [singletons EXCEPT ![c] = Construct(factories[c])], made |-> 1]
    ELSE [ret |-> NoObj, err |-> TRUE, cache |-> singletons, made |-> 0]

\* a resolve that constructs the registered class without keeping the instance
ResolveOutcomeNoCache(c) ==
    IF singletons[c] # NoObj
    THEN [ret |-> singletons[c], err |-> FALSE, cache |-> singletons, made |-> 0]
    ELSE IF services[c] # None
    THEN [ret |-> Construct(services[c]), err |-> FALSE,
          cache |-> singletons, made |-> 1]
    ELSE IF factories[c] # None
    THEN [ret |-> Construct(factories[c]), err |-> FALSE,
          cache |-> singletons, made |-> 1]
    ELSE [ret |-> NoObj, err |-> TRUE, cache |-> singletons, made |-> 0]

\* Container.resolve: what resolve(c) returns (ret), whether it raises
\* ValueError (err), the instance table it leaves (cache) and how many
\* objects it constructed (made)
ResolveOutcome(c) ==
    IF singletons[c] # NoObj
    THEN [ret |-> singletons[c], err |-> FALSE, cache |-> singletons, made |-> 0]
    ELSE IF services[c] # None
    THEN LET o == IF singletons[c] = NoObj THEN Construct(services[c])
                  ELSE singletons[c]
         IN [ret |-> o, err |-> FALSE,
             cache |-> [singletons EXCEPT ![c] = o],
             made |-> IF singletons[c] = NoObj THEN 1 ELSE 0]
    ELSE IF factories[c] # None
    THEN [ret |-> Construct(factories[c]), err |-> FALSE,
          cache |-> singletons, made |-> 1]
    ELSE [ret |-> NoObj, err |-> TRUE, cache |-> singletons, made |-> 0]

Resolve(c) ==
    LET out == ResolveOutcome(c) IN
    /\ nextId + out.made <= MaxNew + 1
    /\ singletons' = out.cache
    /\ nextId' = nextId + out.made
    /\ cLast' = [op |-> "resolve", cap |-> c, ret |-> out.ret, err |-> out.err]
    /\ builtSince' = IF services[c] # None
                   THEN [builtSince EXCEPT ![c] = @ + out.made]
                   ELSE builtSince
    /\ wiped' = {}
    /\ UNCHANGED <<services, factories, regInst>>
    /\ UNCHANGED <<svars, dvars, ovars>>

\* Container.is_registered
is_registered(c) ==
    services[c] # None \/ singletons[c] # NoObj \/ factories[c] # None

IsRegistered(c) ==
    /\ cLast' = [op |-> "is_registered", cap |-> c,
                 ret |-> NoObj, err |-> ~is_registered(c)]
    /\ wiped' = {}
    /\ UNCHANGED <<services, singletons, factories, nextId, regInst, builtSince>>
    /\ UNCHANGED <<svars, dvars, ovars>>

\* the kinds of registration the Container holds: a class, an instance given
\* to register_instance, a factory, a singleton that resolve constructed
RegisteredKinds ==
    (IF \E c \in Keys : services[c] # None THEN {"class"} ELSE {})
    \cup (IF \E c \in Keys : regInst[c] # NoObj THEN {"instance"} ELSE {})
    \cup (IF \E c \in Keys : factories[c] # None THEN {"factory"} ELSE {})
    \cup (IF \E c \in Keys : builtSince[c] > 0 THEN {"built"} ELSE {})

\* a clear that forgets to empty the factory table
ClearedTablesKeepFactories ==
    [svc |-> [c \in Keys |-> None],
     sng |-> [c \in Keys |-> NoObj],
     fac |-> factories]

\* Container.clear: the three tables after clear()
ClearedTables ==
    [svc |-> [c \in Keys |-> None],
     sng |-> [c \in Keys |-> NoObj],
     fac |-> [c \in Keys |-> None]]

Clear ==
    /\ services' = ClearedTables.svc
    /\ singletons' = ClearedTables.sng
    /\ factories' = ClearedTables.fac
    /\ cLast' = [op |-> "clear", cap |-> "-", ret |-> NoObj, err |-> FALSE]
    /\ regInst' = [c \in Keys |-> NoObj]
    /\ builtSince' = [c \in Keys |-> 0]
    /\ wiped' = RegisteredKinds
    /\ UNCHANGED nextId
    /\ UNCHANGED <<svars, dvars, ovars>>

\* the instances a caller can hand to register_instance: built by the caller,
\* or obtained from an earlier resolve
KnownObjects == Prebuilt \cup ({singletons[c] : c \in Caps} \ {NoObj})

ContainerNext ==
    \/ \E c \in Caps, impl \in Impls, s \in BOOLEAN : Register(c, impl, s)
    \/ \E c \in Caps, x \in KnownObjects : RegisterInstance(c, x)
    \/ \E c \in Caps, f \in FactoryFns : RegisterFactory(c, f)
    \/ \E c \in Caps : Resolve(c)
    \/ \E c \in Caps : IsRegistered(c)
    \/ Clear

\* ------------------------------------------------------------------------
\* SingletonFactory and SingletonRegistry (singleton_factory.py)
\* ------------------------------------------------------------------------
\* names under which the process registers its singletons (constants.py:33-35)
Names == {"container", "service_registry"}
\* identities of SingletonFactory objects
Fids == 1..MaxFactories

\* SingletonRegistry.__init__: no factory registered; no SingletonFactory built
SingletonInit ==
    /\ sfFunc = <<>>
    /\ sfInst = <<>>
    /\ regFactories = [n \in Names |-> 0]
    /\ sNextId = 1
    /\ sLast = [op |-> "init", name |-> "-", ret |-> NoObj, err |-> FALSE]
    /\ got = [n \in Names |-> {}]
    /\ cachedAtReg = [n \in Names |-> NoObj]
    /\ dropped = {}

\* the instance cached for a name (NoObj when it has no factory or no instance)
Cached(n) == IF regFactories[n] = 0 THEN NoObj ELSE sfInst[regFactories[n]]

\* SingletonRegistry.register_factory: the table after register_factory(n, fid)
SRegisterFactoryTable(n, fid) == [regFactories EXCEPT ![n] = fid]

\* every create_singleton_factory call is given a function of its own (a
\* lambda that builds a new object), named here by the factory it goes to
NewFunc == Len(sfFunc) + 1

\* register_factory(n, create_singleton_factory(func)): a new SingletonFactory,
\* built with _instance None, is stored under n
RegisterNewFactory(n) ==
    /\ Len(sfFunc) < MaxFactories
    /\ sfFunc' = Append(sfFunc, NewFunc)
    /\ sfInst' = Append(sfInst, NoObj)
    /\ regFactories' = SRegisterFactoryTable(n, Len(sfFunc) + 1)
    /\ sLast' = [op |-> "register_factory", name |-> n, ret |-> NoObj, err |-> FALSE]
    /\ cachedAtReg' = [cachedAtReg EXCEPT ![n] = IF @ = NoObj THEN Cached(n) ELSE @]
    /\ dropped' = {}
    /\ UNCHANGED <<sNextId, got>>
    /\ UNCHANGED <<cvars, dvars, ovars>>

\* register_factory(n, factory) with a SingletonFactory that already exists
RegisterOldFactory(n, fid) ==
    /\ fid \in 1..Len(sfFunc)
    /\ regFactories' = SRegisterFactoryTable(n, fid)
    /\ sLast' = [op |-> "register_factory", name |-> n, ret |-> NoObj, err |-> FALSE]
    /\ cachedAtReg' = [cachedAtReg EXCEPT ![n] = IF @ = NoObj THEN Cached(n) ELSE @]
    /\ dropped' = {}
    /\ UNCHANGED <<sfFunc, sfInst, sNextId, got>>
    /\ UNCHANGED <<cvars, dvars, ovars>>

\* SingletonFactory.get_instance on factory fid: the instance it returns, the
\* _instance fields it leaves and how many objects it built
FactoryGetInstance(fid) ==
    IF sfInst[fid] = NoObj
    THEN LET o == [id |-> sNextId, by |-> sfFunc[fid]]
         IN [ret |-> o, inst |-> [sfInst EXCEPT ![fid] = o], made |-> 1]
    ELSE [ret |-> sfInst[fid], inst |-> sfInst, made |-> 0]

\* a get_instance that answers None for a name that has no factory
GetInstanceOutcomeLenient(n) ==
    IF regFactories[n] = 0
    THEN [ret |-> NoObj, err |-> FALSE, inst |-> sfInst, made |-> 0]
    ELSE LET r == FactoryGetInstance(regFactories[n])
         IN [ret |-> r.ret, err |-> FALSE, inst |-> r.inst, made |-> r.made]

\* SingletonRegistry.get_instance: KeyError (err) when the name has no factory
GetInstanceOutcome(n) ==
    IF regFactories[n] = 0
    THEN [ret |-> NoObj, err |-> TRUE, inst |-> sfInst, made |-> 0]
    ELSE LET r == FactoryGetInstance(regFactories[n])
         IN [ret |-> r.ret, err |-> FALSE, inst |-> r.inst, made |-> r.made]

GetInstance(n) ==
    LET out == GetInstanceOutcome(n) IN
    /\ sNextId + out.made <= MaxBuilt + 1
    /\ sfInst' = out.inst
    /\ sNextId' = sNextId + out.made
    /\ sLast' = [op |-> "get_instance", name |-> n, ret |-> out.ret, err |-> out.err]
    /\ got' = IF out.err THEN got ELSE [got EXCEPT ![n] = @ \cup {out.ret}]
    /\ dropped' = {}
    /\ UNCHANGED <<sfFunc, regFactories, cachedAtReg>>
    /\ UNCHANGED <<cvars, dvars, ovars>>

\* SingletonFactory.reset_instance on factory fid
FactoryReset(fid) == [sfInst EXCEPT ![fid] = NoObj]

\* a reset_instance that resets every factory, as reset_all does
ResetInstanceResetsAll(n) ==
    [fac |-> regFactories,
     inst |-> [fid \in DOMAIN sfInst |-> NoObj]]

\* a reset_instance that also unregisters the factory of the name
ResetInstanceUnregisters(n) ==
    [fac |-> [regFactories EXCEPT ![n] = 0],
     inst |-> IF regFactories[n] # 0 THEN FactoryReset(regFactories[n]) ELSE sfInst]

\* SingletonRegistry.reset_instance: the factory table and the _instance
\* fields after reset_instance(n)
ResetInstanceEffect(n) ==
    [fac |-> regFactories,
     inst |-> IF regFactories[n] # 0 THEN FactoryReset(regFactories[n]) ELSE sfInst]

ResetInstance(n) ==
    /\ regFactories' = ResetInstanceEffect(n).fac
    /\ sfInst' = ResetInstanceEffect(n).inst
    /\ sLast' = [op |-> "reset_instance", name |-> n, ret |-> NoObj, err |-> FALSE]
    /\ got' = [m \in Names |-> {}]
    /\ cachedAtReg' = [m \in Names |-> NoObj]
    /\ dropped' = {Cached(n)} \ {NoObj}
    /\ UNCHANGED <<sfFunc, sNextId>>
    /\ UNCHANGED <<cvars, dvars, ovars>>

\* SingletonRegistry.reset_all: every registered factory is reset
ResetAllEffect ==
    [fac |-> regFactories,
     inst |-> [fid \in DOMAIN sfInst |->
                 IF \E n \in Names : regFactories[n] = fid THEN NoObj ELSE sfInst[fid]]]

ResetAll ==
    /\ regFactories' = ResetAllEffect.fac
    /\ sfInst' = ResetAllEffect.inst
    /\ sLast' = [op |-> "reset_all", name |-> "-", ret |-> NoObj, err |-> FALSE]
    /\ got' = [m \in Names |-> {}]
    /\ cachedAtReg' = [m \in Names |-> NoObj]
    /\ dropped' = {Cached(n) : n \in Names} \ {NoObj}
    /\ UNCHANGED <<sfFunc, sNextId>>
    /\ UNCHANGED <<cvars, dvars, ovars>>

SingletonNext ==
    \/ \E n \in Names : RegisterNewFactory(n)
    \/ \E n \in Names, fid \in Fids : RegisterOldFactory(n, fid)
    \/ \E n \in Names : GetInstance(n)
    \/ \E n \in Names : ResetInstance(n)
    \/ ResetAll

\* ------------------------------------------------------------------------
\* Types and namespaces, as reflection shows them to the detectors
\* ------------------------------------------------------------------------
\* the types: those of the core (interfaces.py:9, base.py:14), of the health
\* feature (features/health/service.py:17, 57), the two service types of the
\* pair namespace, and a service type whose second base is an abstract type
\* that is not named as an interface
Types == {"object", "ABC", "IService", "BaseService", "IHealthService",
          "HealthService", "AlphaService", "BetaService", "Checks",
          "ProbeService"}

\* __bases__ of a type
Bases(t) ==
    IF t = "object" THEN <<>>
    ELSE IF t \in {"ABC"} THEN <<"object">>
    ELSE IF t \in {"IService", "IHealthService", "Checks"} THEN <<"ABC">>
    ELSE IF t = "BaseService" THEN <<"IService">>
    ELSE IF t = "HealthService" THEN <<"BaseService", "IHealthService">>
    ELSE IF t = "ProbeService" THEN <<"BaseService", "Checks">>
    ELSE <<"BaseService">>

\* __mro__ of a type (the linearization the interpreter computes)
Mro(t) ==
    IF t = "object" THEN <<"object">>
    ELSE IF t = "ABC" THEN <<"ABC", "object">>
    ELSE IF t \in {"IService", "IHealthService", "Checks"} THEN <<t, "ABC", "object">>
    ELSE IF t = "BaseService" THEN <<"BaseService", "IService", "ABC", "object">>
    ELSE IF t = "HealthService"
        THEN <<"HealthService", "BaseService", "IService", "IHealthService",
               "ABC", "object">>
    ELSE IF t = "ProbeService"
        THEN <<"ProbeService", "BaseService", "IService", "Checks", "ABC",
               "object">>
    ELSE <<t, "BaseService", "IService", "ABC", "object">>

\* hasattr(t, '__abstractmethods__'): set by ABCMeta on every type it creates
HasAbstractMethodsAttr(t) == t # "object"

\* __abstractmethods__ of a type: the abstract operations it leaves
\* unimplemented (interfaces.py:12-27, features/health/service.py:20-53;
\* BaseService implements all of IService: base.py:37-66)
AbstractMethods(t) ==
    IF t = "IService" THEN {"initialize", "is_initialized", "feature_name"}
    ELSE IF t = "IHealthService"
        THEN {"get_health_status", "get_quick_status", "get_system_info",
              "is_initialized"}
    ELSE IF t = "Checks" THEN {"check"}
    ELSE {}

\* the types the Service decorator was applied to (registry.py:290-316)
Decorated == {"HealthService", "AlphaService", "BetaService", "ProbeService"}

\* the characters of an identifier (a type's __name__, a member's name)
Chars(n) ==
    IF n = "object"
        THEN <<"o", "b", "j", "e", "c", "t">>
    ELSE IF n = "ABC"
        THEN <<"A", "B", "C">>
    ELSE IF n = "IService"
        THEN <<"I", "S", "e", "r", "v", "i", "c", "e">>
    ELSE IF n = "BaseService"
        THEN <<"B", "a", "s", "e", "S", "e", "r", "v", "i", "c", "e">>
    ELSE IF n = "IHealthService"
        THEN <<"I", "H", "e", "a", "l", "t", "h", "S", "e", "r", "v", "i", "c", "e">>
    ELSE IF n = "HealthService"
        THEN <<"H", "e", "a", "l", "t", "h", "S", "e", "r", "v", "i", "c", "e">>
    ELSE IF n = "AlphaService"
        THEN <<"A", "l", "p", "h", "a", "S", "e", "r", "v", "i", "c", "e">>
    ELSE IF n = "BetaService"
        THEN <<"B", "e", "t", "a", "S", "e", "r", "v", "i", "c", "e">>
    ELSE IF n = "Checks"
        THEN <<"C", "h", "e", "c", "k", "s">>
    ELSE IF n = "ProbeService"
        THEN <<"P", "r", "o", "b", "e", "S", "e", "r", "v", "i", "c", "e">>
    ELSE IF n = "Svc"
        THEN <<"S", "v", "c">>
    ELSE IF n = "Service"
        THEN <<"S", "e", "r", "v", "i", "c", "e">>
    ELSE IF n = "helper"
        THEN <<"h", "e", "l", "p", "e", "r">>
    ELSE <<>>

\* the characters identifiers are made of here, in code point order
Alphabet ==
    <<"A", "B", "C", "D", "E", "F", "G", "H", "I", "J", "K", "L", "M",
      "N", "O", "P", "Q", "R", "S", "T", "U", "V", "W", "X", "Y", "Z",
      "_", "a", "b", "c", "d", "e", "f", "g", "h", "i", "j", "k", "l",
      "m", "n", "o", "p", "q", "r", "s", "t", "u", "v", "w", "x", "y",
      "z">>

Ord(ch) == CHOOSE i \in 1..Len(Alphabet) : Alphabet[i] = ch

\* a < b for two strings, as Python compares them
RECURSIVE NameLess(_, _)
NameLess(a, b) ==
    IF b = <<>> THEN FALSE
    ELSE IF a = <<>> THEN TRUE
    ELSE IF Head(a) # Head(b) THEN Ord(Head(a)) < Ord(Head(b))
    ELSE NameLess(Tail(a), Tail(b))

\* str.startswith and str.endswith
StartsWith(a, prefix) ==
    Len(a) >= Len(prefix) /\ SubSeq(a, 1, Len(prefix)) = prefix

EndsWith(a, suffix) ==
    Len(a) >= Len(suffix) /\ SubSeq(a, Len(a) - Len(suffix) + 1, Len(a)) = suffix

\* inspect.isclass: the objects that are types; a member of a namespace may
\* be something else (a function, a module)
IsClass(obj) == obj \in Types

\* the members of a namespace, as a set
MembersOf(ns) == {ns[i] : i \in 1..Len(ns)}

\* the members sorted by name, as inspect.getmembers returns them
RECURSIVE SortByName(_)
SortByName(ms) ==
    IF ms = {} THEN <<>>
    ELSE LET m == CHOOSE x \in ms :
                      \A y \in ms \ {x} : NameLess(Chars(x.name), Chars(y.name))
         IN <<m>> \o SortByName(ms \ {m})

\* inspect.getmembers(module, inspect.isclass): the members that are classes,
\* sorted by name
getmembers(ns) == SortByName({m \in MembersOf(ns) : IsClass(m.obj)})

\* BaseServiceDetector, the three criteria (service_detector.py:78-88);
\* hasattr finds the marker the decorator set on the type or on an ancestor
inherits_from_base_service(t) ==
    \E i \in 1..Len(Mro(t)) : Mro(t)[i] = "BaseService"

is_not_base_service_itself(t) == t # "BaseService"

has_service_name_attribute(t) ==
    \E i \in 1..Len(Mro(t)) : Mro(t)[i] \in Decorated

\* BaseServiceDetector.is_service_class
is_service_class(obj) ==
    IF ~IsClass(obj) THEN FALSE
    ELSE /\ inherits_from_base_service(obj)
         /\ is_not_base_service_itself(obj)
         /\ has_service_name_attribute(obj)

\* the members of ms whose object is a service class, in the order of ms
ServiceMembers(ms) == SelectSeq(ms, LAMBDA m : is_service_class(m.obj))

\* what a scan returns: the types (classes) and the names it logged
ScanResult(found) ==
    [classes |-> [i \in 1..Len(found) |-> found[i].obj],
     logged |-> [i \in 1..Len(found) |-> found[i].name]]

\* a scan that takes the members in the order of their declaration
DetectServiceClassesDeclared(ns) ==
    ScanResult(ServiceMembers(SelectSeq(ns, LAMBDA m : IsClass(m.obj))))

\* BaseServiceDetector.get_service_classes(module): the class members of the
\* namespace, in the order of inspect.getmembers, that pass is_service_class
DetectServiceClasses(ns) == ScanResult(ServiceMembers(getmembers(ns)))

\* a member of a namespace: a name bound to an object
Member(name, obj) == [name |-> name, obj |-> obj]

\* the service module of a feature namespace, as the members it declares in
\* order: features/health/service.py (lines 9-57: the imported ABC,
\* BaseService and Service, and its two classes; its other imports are no
\* service classes either), and a module that declares two service types
ServiceModule(f) ==
    IF f = "health"
    THEN <<Member("ABC", "ABC"), Member("BaseService", "BaseService"),
           Member("Service", "Service()"),
           Member("IHealthService", "IHealthService"),
           Member("HealthService", "HealthService")>>
    ELSE IF f = "pair"
    THEN <<Member("BaseService", "BaseService"), Member("Service", "Service()"),
           Member("AlphaService", "AlphaService"),
           Member("BetaService", "BetaService")>>
    ELSE <<>>

\* ------------------------------------------------------------------------
\* ServiceRegistry, ServiceDiscovery, RouteManager, FeatureManager (registry.py)
\* ------------------------------------------------------------------------
NoFail == [feature |-> "-", class |-> "-", step |-> "-"]

\* no register_service_interfaces call was made yet
NoCall == [cls |-> "-", raised |-> FALSE, list |-> <<>>, failing |-> {},
           inst |-> NoObj, ret |-> TRUE, count |-> 0, total |-> 0, tried |-> <<>>,
           tab |-> [c \in Keys |-> NoObj]]

\* ServiceRegistry.__init__, FeatureManager.__init__: empty tables, no call yet
DiscoveryInit ==
    /\ registry = [n \in {"health", "alpha", "beta"} |-> NoObj]
    /\ features = [f \in Features |-> "none"]
    /\ initialized = {}
    /\ routeVar = [n \in {"health", "alpha", "beta"} |-> NoObj]
    /\ endpoints = [rc \in RouteClassNames |-> 0]
    /\ dNextId = 1
    /\ pc = "idle"
    /\ fmList = <<>>
    /\ classList = <<>>
    /\ curInst = NoObj
    /\ rfRet = "none"
    /\ discRet = "none"
    /\ calls = 0
    /\ callList = <<>>
    /\ attempted = <<>>
    /\ instantiated = <<>>
    /\ failAt = NoFail
    /\ ifLast = NoCall
    /\ rtLast = "none"
    /\ faults = 0
    /\ regOrder = <<>>
    /\ noModule = {}
    /\ rtLog = <<>>

\* _load_service_module: whether import_module(module_path + ".service")
\* finds a module (ImportError gives None)
HasServiceModule(f) == f \in {"health", "pair"}

\* discover_and_register_services, line 116: the service types the detector
\* finds in the service module of the namespace
get_service_classes(f) == DetectServiceClasses(ServiceModule(f)).classes

\* the _service_name the Service decorator set on the type
ServiceName(cls) ==
    IF cls = "HealthService" THEN "health"
    ELSE IF cls = "AlphaService" THEN "alpha"
    ELSE "beta"

\* AbstractMethodInterfaceStrategy._is_interface
is_interface(t) ==
    /\ HasAbstractMethodsAttr(t)
    /\ AbstractMethods(t) # {}
    /\ t # "BaseService"

\* AbstractMethodInterfaceStrategy._follows_interface_naming_convention
follows_interface_naming_convention(t) ==
    /\ StartsWith(Chars(t), <<"I">>)
    /\ (EndsWith(Chars(t), Chars("Service")) \/ Len(Chars(t)) > 1)

\* AbstractMethodInterfaceStrategy._is_interface_in_mro
is_interface_in_mro(t) ==
    /\ HasAbstractMethodsAttr(t)
    /\ AbstractMethods(t) # {}
    /\ t # "BaseService"
    /\ follows_interface_naming_convention(t)

\* AbstractMethodInterfaceStrategy.get_interfaces: the direct bases that pass
\* _is_interface, then the types of the MRO that pass _is_interface_in_mro
get_interfaces(cls) ==
    SelectSeq(Bases(cls), is_interface) \o SelectSeq(Mro(cls), is_interface_in_mro)

\* _load_routes_module: whether the namespace has a routes module
HasRoutesModule(f) == f \in {"health", "pair"}

\* _instantiate_route_classes, lines 206-207: the endpoint classes of the
\* routes module of the namespace, in the order of inspect.getmembers (by name)
RouteClasses(f) ==
    IF f = "health" THEN <<"HealthRoutes">>
    ELSE IF f = "pair" THEN <<"AlphaRoutes", "BetaRoutes", "GammaRoutes">>
    ELSE <<>>

\* the capabilities an endpoint class is annotated with, which
\* BaseRoutes._auto_inject_dependencies injects (web/routes.py:45-59):
\* HealthRoutes has health_service: IHealthService (health/routes.py:20);
\* in the pair namespace AlphaRoutes has no annotation (it reads the service
\* variable of the module), BetaRoutes shows the health status and is
\* annotated with IHealthService, GammaRoutes is annotated with IService
Requires(rc) ==
    IF rc \in {"HealthRoutes", "BetaRoutes"} THEN <<"IHealthService">>
    ELSE IF rc = "GammaRoutes" THEN <<"IService">>
    ELSE <<>>

\* a register_features that goes on to the next feature after a failure
ContinueFeaturesAlways(ok) == TRUE

\* a discovery that goes on to the next service type after a failure
ContinueDiscoveryAlways(ok) == TRUE

\* FeatureManager.register_features, lines 263-272: the loop goes on to the
\* next feature when auto_discover_services returned True, and returns False
\* otherwise
ContinueFeatures(ok) == ok

\* discover_and_register_services, lines 118-120: the loop goes on to the next
\* service type when _register_service_class returned True, and returns False
\* otherwise
ContinueDiscovery(ok) == ok

\* the entries of the ServiceRegistry after a failed discovery: nothing is
\* taken back (registry.py has no removal besides clear())
RegistryAfterFailure == registry

\* a register_features that keeps a record of a failed feature as well
RecordFeatureAlways(f, ok) ==
    [features EXCEPT ![f] = IF ok THEN "active" ELSE "failed"]

\* register_features, lines 263-272: the record {status: 'active'} is stored
\* under the feature name when auto_discover_services returned True; nothing
\* is stored otherwise
RecordFeature(f, ok) ==
    IF ok THEN [features EXCEPT ![f] = "active"] ELSE features

\* discover_and_register_services returned ok to register_features
DiscoveryReturn(ok) ==
    /\ discRet' = IF ok THEN "true" ELSE "false"
    /\ classList' = <<>>
    /\ curInst' = NoObj
    /\ features' = RecordFeature(Head(fmList), ok)
    /\ IF ContinueFeatures(ok)
       THEN /\ fmList' = Tail(fmList)
            /\ pc' = "feature"
            /\ rfRet' = rfRet
       ELSE /\ fmList' = <<>>
            /\ pc' = "idle"
            /\ rfRet' = "false"

\* _register_service_class returned ok to discover_and_register_services
ClassReturn(ok, step) ==
    /\ failAt' = IF ok THEN failAt
                 ELSE [feature |-> Head(fmList), class |-> Head(classList),
                       step |-> step]
    /\ IF ContinueDiscovery(ok)
       THEN /\ classList' = Tail(classList)
            /\ curInst' = NoObj
            /\ pc' = "class"
            /\ UNCHANGED <<features, fmList, rfRet, discRet>>
       ELSE DiscoveryReturn(FALSE)

\* a status report that counts the services instead of the feature records
get_features_statusCountsServices ==
    [total_features |-> Len(regOrder),
     features |-> [f \in {g \in Features : features[g] # "none"} |->
                     [status |-> features[f]]],
     services |-> regOrder]

\* FeatureManager.get_features_status: the number of records, the records,
\* and the keys of the ServiceRegistry as a list
get_features_status ==
    [total_features |-> Cardinality({f \in Features : features[f] # "none"}),
     features |-> [f \in {g \in Features : features[g] # "none"} |->
                     [status |-> features[f]]],
     services |-> regOrder]

\* FeatureManager.register_features(feature_modules) is called
RegisterFeatures(list) ==
    /\ pc = "idle"
    /\ calls < MaxCalls
    /\ calls' = calls + 1
    /\ pc' = "feature"
    /\ fmList' = list
    /\ callList' = list
    /\ attempted' = <<>>
    /\ instantiated' = <<>>
    /\ failAt' = NoFail
    /\ rfRet' = "none"
    /\ discRet' = "none"
    /\ UNCHANGED <<registry, features, initialized, routeVar, endpoints, dNextId,
                   classList, curInst>>
    /\ ifLast' = NoCall
    /\ rtLast' = "none"
    /\ noModule' = {}
    /\ rtLog' = <<>>
    /\ UNCHANGED <<faults, regOrder>>
    /\ UNCHANGED <<cvars, svars, ovars>>

\* register_features, line 275: the list is exhausted
FeaturesDone ==
    /\ pc = "feature"
    /\ fmList = <<>>
    /\ pc' = "idle"
    /\ rfRet' = "true"
    /\ UNCHANGED <<registry, features, initialized, routeVar, endpoints, dNextId,
                   fmList, classList, curInst, discRet, calls, callList,
                   attempted, instantiated, failAt>>
    /\ UNCHANGED <<ifLast, rtLast>>
    /\ UNCHANGED <<faults, regOrder, noModule, rtLog>>
    /\ UNCHANGED <<cvars, svars, ovars>>

\* a discovery that takes a missing service module for a failure
NoModuleResultFails == FALSE

\* discover_and_register_services, lines 113-114: what it returns when
\* _load_service_module gave None
NoModuleResult == TRUE

\* _load_service_module, lines 130-134: why import_module raises ImportError
\* for the service module of a namespace: there is no such module, or the
\* module is there and an import inside it fails (features/health/service.py:7
\* imports psutil, which may not be installed; the module of the pair
\* namespace imports the core alone)
ImportErrorCauses(f) ==
    IF ~HasServiceModule(f) THEN {"absent"}
    ELSE IF f = "health" THEN {"import_inside_fails"}
    ELSE {}

\* discover_and_register_services, lines 112-114: import_module raised
\* ImportError, _load_service_module gave None
DiscoverNoModule(cause) ==
    /\ pc = "feature"
    /\ fmList # <<>>
    /\ cause \in ImportErrorCauses(Head(fmList))
    /\ cause = "import_inside_fails" => faults < MaxFaults
    /\ faults' = IF cause = "import_inside_fails" THEN faults + 1 ELSE faults
    /\ attempted' = Append(attempted, Head(fmList))
    /\ instantiated' = <<>>
    /\ failAt' = NoFail
    /\ DiscoveryReturn(NoModuleResult)
    /\ UNCHANGED <<registry, initialized, routeVar, endpoints, dNextId, calls,
                   callList>>
    /\ ifLast' = NoCall
    /\ rtLast' = "none"
    /\ noModule' = noModule \cup {Head(fmList)}
    /\ UNCHANGED <<regOrder, rtLog>>
    /\ UNCHANGED <<cvars, svars, ovars>>

\* discover_and_register_services, lines 112-116: the module is loaded and its
\* service types are detected
DiscoverDetect ==
    /\ pc = "feature"
    /\ fmList # <<>>
    /\ HasServiceModule(Head(fmList))
    /\ attempted' = Append(attempted, Head(fmList))
    /\ instantiated' = <<>>
    /\ failAt' = NoFail
    /\ discRet' = "none"
    /\ classList' = get_service_classes(Head(fmList))
    /\ pc' = "class"
    /\ UNCHANGED <<registry, features, initialized, routeVar, endpoints, dNextId,
                   fmList, curInst, rfRet, calls, callList>>
    /\ ifLast' = NoCall
    /\ rtLast' = "none"
    /\ UNCHANGED <<faults, regOrder, noModule, rtLog>>
    /\ UNCHANGED <<cvars, svars, ovars>>

\* discover_and_register_services, line 122: every service type is registered
DiscoveryDone ==
    /\ pc = "class"
    /\ classList = <<>>
    /\ DiscoveryReturn(TRUE)
    /\ UNCHANGED <<registry, initialized, routeVar, endpoints, dNextId, calls,
                   callList, attempted, instantiated, failAt>>
    /\ UNCHANGED <<ifLast, rtLast>>
    /\ UNCHANGED <<faults, regOrder, noModule, rtLog>>
    /\ UNCHANGED <<cvars, svars, ovars>>

\* a _register_service_class that binds the routes before the capabilities
\* are registered
StepOrderRoutesFirst == <<"class", "initialize", "register", "routes", "interfaces">>

\* _register_service_class, lines 141-158: the steps taken for one service
\* type, each named by where the call stands before it: instantiate ("class"),
\* initialize, register in the ServiceRegistry, register the interfaces, set
\* up the routes
StepOrder == <<"class", "initialize", "register", "interfaces", "routes">>

\* the step that follows step s
StepAfter(s) ==
    StepOrder[(CHOOSE i \in 1..Len(StepOrder) : StepOrder[i] = s) + 1]

\* _register_service_class, line 141: service_class() returns an instance
\* (that is not initialized yet: base.py:27) or raises
Instantiate(outcome) ==
    /\ pc = "class"
    /\ classList # <<>>
    /\ instantiated' = Append(instantiated, Head(classList))
    /\ IF outcome = "ok"
       THEN /\ curInst' = [id |-> dNextId, by |-> Head(classList)]
            /\ dNextId' = dNextId + 1
            /\ pc' = StepAfter("class")
            /\ registry' = registry
            /\ UNCHANGED <<features, fmList, classList, rfRet, discRet, failAt>>
       ELSE /\ ClassReturn(FALSE, "instantiate")
            /\ registry' = RegistryAfterFailure
            /\ UNCHANGED dNextId
    /\ UNCHANGED <<initialized, routeVar, endpoints, calls, callList, attempted>>
    /\ ifLast' = NoCall
    /\ rtLast' = "none"
    /\ UNCHANGED <<faults, regOrder, noModule, rtLog>>
    /\ UNCHANGED <<cvars, svars, ovars>>

\* a _register_service_class that goes on whatever initialize() returned
InitializeProceedsAlways(outcome) == outcome # "raise"

\* _register_service_class, line 143: registration goes on when initialize()
\* returned True
InitializeProceeds(outcome) == outcome = "true"

\* _register_service_class, lines 143-145: initialize() returns True (and the
\* instance is initialized: base.py:54-58), returns False, or raises
Initialize(outcome) ==
    /\ pc = "initialize"
    /\ initialized' = IF outcome = "true" THEN initialized \cup {curInst}
                      ELSE initialized
    /\ IF InitializeProceeds(outcome)
       THEN /\ pc' = StepAfter("initialize")
            /\ registry' = registry
            /\ UNCHANGED <<features, fmList, classList, curInst, rfRet, discRet,
                           failAt>>
       ELSE /\ ClassReturn(FALSE, "initialize")
            /\ registry' = RegistryAfterFailure
    /\ UNCHANGED <<routeVar, endpoints, dNextId, calls, callList, attempted,
                   instantiated>>
    /\ UNCHANGED <<ifLast, rtLast>>
    /\ UNCHANGED <<faults, regOrder, noModule, rtLog>>
    /\ UNCHANGED <<cvars, svars, ovars>>

\* a register_service that keeps the instance already stored under the name
RegisterServiceTableKeepFirst(name, inst) ==
    IF registry[name] # NoObj THEN registry ELSE [registry EXCEPT ![name] = inst]

\* ServiceRegistry.register_service: the registry table after
\* register_service(name, inst)
RegisterServiceTable(name, inst) == [registry EXCEPT ![name] = inst]

\* the keys of the dict after self._services[name] = inst: a new key goes to
\* the end, a key already there keeps its place
RegisterServiceOrder(name) ==
    IF \E i \in 1..Len(regOrder) : regOrder[i] = name THEN regOrder
    ELSE Append(regOrder, name)

\* _register_service_class, lines 148-152: the instance is stored under its
\* service name and mirrored into the Container under its type
RegisterService ==
    /\ pc = "register"
    /\ registry' = RegisterServiceTable(ServiceName(Head(classList)), curInst)
    /\ regOrder' = RegisterServiceOrder(ServiceName(Head(classList)))
    /\ UNCHANGED <<noModule, rtLog>>
    /\ singletons' = RegisterInstanceTable(Head(classList), curInst)
    /\ regInst' = [regInst EXCEPT ![Head(classList)] = curInst]
    /\ pc' = StepAfter("register")
    /\ UNCHANGED ifLast
    /\ UNCHANGED <<features, initialized, routeVar, endpoints, dNextId, fmList,
                   classList, curInst, rfRet, discRet, calls, callList,
                   attempted, instantiated, failAt, rtLast>>
    /\ UNCHANGED <<services, factories, nextId, cLast, builtSince, wiped>>
    /\ UNCHANGED faults
    /\ UNCHANGED <<svars, ovars>>

\* _register_single_interface: register_instance(iface, inst) on the Container;
\* failing are the capabilities for which the container's register_instance
\* raises, which is caught and answered with False
RegisterSingleInterface(tab, iface, inst, failing) ==
    IF iface \in failing THEN [ok |-> FALSE, tab |-> tab]
    ELSE [ok |-> TRUE, tab |-> [tab EXCEPT ![iface] = inst]]

\* register_service_interfaces, lines 133-136: the loop over the detected
\* interfaces, in order: the table it leaves, success_count and the
\* interfaces it tried
RECURSIVE RegisterInterfacesLoop(_, _, _, _)
RegisterInterfacesLoop(tab, ifaces, inst, failing) ==
    IF ifaces = <<>> THEN [tab |-> tab, count |-> 0, tried |-> <<>>]
    ELSE LET one == RegisterSingleInterface(tab, Head(ifaces), inst, failing)
             rest == RegisterInterfacesLoop(one.tab, Tail(ifaces), inst, failing)
         IN [tab |-> rest.tab,
             count |-> (IF one.ok THEN 1 ELSE 0) + rest.count,
             tried |-> <<Head(ifaces)>> \o rest.tried]

\* the instance table after register_instance for each detected interface
RegisterInterfacesTable(tab, ifaces, inst, failing) ==
    RegisterInterfacesLoop(tab, ifaces, inst, failing).tab

\* a result that is True as soon as one interface was registered
InterfacesResultAny(count, total) == IF total # 0 THEN count > 0 ELSE TRUE

\* register_service_interfaces, line 142
InterfacesResult(count, total) == IF total # 0 THEN count = total ELSE TRUE

\* register_service_interfaces(cls, inst): det is what the detection strategy
\* did (raised, or returned det.list); an exception is answered with False.
\* The record holds the result (ret), success_count (count), len(interfaces)
\* (total), the interfaces tried and the instance table the call left (tab)
register_service_interfaces(tab, cls, det, inst, failing) ==
    IF det.raised
    THEN [cls |-> cls, raised |-> TRUE, list |-> <<>>, failing |-> failing,
          inst |-> inst, ret |-> FALSE, count |-> 0, total |-> 0,
          tried |-> <<>>, tab |-> tab]
    ELSE LET run == RegisterInterfacesLoop(tab, det.list, inst, failing)
         IN [cls |-> cls, raised |-> FALSE, list |-> det.list,
             failing |-> failing, inst |-> inst,
             ret |-> InterfacesResult(run.count, Len(det.list)),
             count |-> run.count, total |-> Len(det.list),
             tried |-> run.tried, tab |-> run.tab]

\* _register_service_class, line 155: the interfaces of the type are detected
\* and registered; what register_service_interfaces returns is not looked at
RegisterInterfaces(failing) ==
    LET det == [raised |-> FALSE, list |-> get_interfaces(Head(classList))]
        call == register_service_interfaces(singletons, Head(classList), det,
                                            curInst, failing)
    IN
    /\ pc = "interfaces"
    /\ failing \subseteq {det.list[i] : i \in DOMAIN det.list}
    /\ failing # {} => faults < MaxFaults
    /\ faults' = IF failing # {} THEN faults + 1 ELSE faults
    /\ singletons' = call.tab
    /\ regInst' = RegisterInterfacesTable(regInst, det.list, curInst, failing)
    /\ ifLast' = call
    /\ pc' = StepAfter("interfaces")
    /\ UNCHANGED <<registry, features, initialized, routeVar, endpoints, dNextId,
                   fmList, classList, curInst, rfRet, discRet, calls, callList,
                   attempted, instantiated, failAt, rtLast, regOrder,
                   noModule, rtLog>>
    /\ UNCHANGED <<services, factories, nextId, cLast, builtSince, wiped>>
    /\ UNCHANGED <<svars, ovars>>

\* BaseRoutes._inject_service(c): the Container resolves c (ValueError is
\* caught) to a service that is initialized; otherwise it returns None. The
\* Container holds instances alone during discovery, so that resolve
\* constructs nothing
InjectService(c) ==
    /\ ~ResolveOutcome(c).err
    /\ ResolveOutcome(c).ret \in initialized

\* BaseRoutes.__init__ of endpoint class rc: the endpoint object is built when
\* every annotated capability is injected, else ValueError (web/routes.py:60-64)
EndpointBuilt(rc) ==
    \A i \in 1..Len(Requires(rc)) : InjectService(Requires(rc)[i])

\* an instantiation that catches the error of each endpoint class by itself
\* and goes on with the next class
RECURSIVE instantiate_route_classesEach(_)
instantiate_route_classesEach(classes) ==
    IF classes = <<>> THEN [built |-> <<>>, failed |-> "-"]
    ELSE LET rest == instantiate_route_classesEach(Tail(classes))
         IN IF EndpointBuilt(Head(classes))
            THEN [built |-> <<Head(classes)>> \o rest.built, failed |-> rest.failed]
            ELSE [built |-> rest.built, failed |-> Head(classes)]

\* RouteManager._instantiate_route_classes: the endpoint classes are built in
\* order inside one try block: the classes built (built) and the class whose
\* construction raised and ended the loop (failed, "-" when none did)
RECURSIVE instantiate_route_classes(_)
instantiate_route_classes(classes) ==
    IF classes = <<>> THEN [built |-> <<>>, failed |-> "-"]
    ELSE IF ~EndpointBuilt(Head(classes))
    THEN [built |-> <<>>, failed |-> Head(classes)]
    ELSE LET rest == instantiate_route_classes(Tail(classes))
         IN [built |-> <<Head(classes)>> \o rest.built, failed |-> rest.failed]

\* what one setup_routes call did: loading the routes namespace raised, or
\* its endpoint classes were instantiated
RoutesRun(f, outcome) ==
    IF outcome = "ok" THEN instantiate_route_classes(RouteClasses(f))
    ELSE [built |-> <<>>, failed |-> "load"]

\* whether RouteManager.setup_routes bound the routes: loading the routes
\* namespace did not raise and every endpoint class of the namespace was built
RoutesBound(f, outcome) == RoutesRun(f, outcome).failed = "-"

\* a route manager that builds an endpoint class once, however often it is
\* called for the namespace
EndpointsAfterOnce(built) ==
    [rc \in RouteClassNames |->
        IF (\E i \in 1..Len(built) : built[i] = rc) /\ endpoints[rc] = 0
        THEN 1 ELSE endpoints[rc]]

\* _instantiate_route_classes, line 209: each class built is one more endpoint
\* object, whose exposed methods are bound
EndpointsAfter(built) ==
    [rc \in RouteClassNames |->
        IF \E i \in 1..Len(built) : built[i] = rc
        THEN endpoints[rc] + 1 ELSE endpoints[rc]]

\* a _register_service_class that fails when the interfaces or the routes did
ClassResultStrict(ifOk, routesOk) == ifOk /\ routesOk

\* _register_service_class, lines 154-160: what it returns once the service
\* is in the registry, given the result of register_service_interfaces and
\* whether setup_routes bound the routes: neither is looked at
ClassResult(ifOk, routesOk) == TRUE

\* _register_service_class, line 158: RouteManager.setup_routes loads the
\* routes namespace (that may raise: the failure is injected for the routes
\* module of the health namespace), sets the service variable on it and
\* builds its endpoint classes; whatever fails there is swallowed
SetupRoutes(outcome) ==
    /\ pc = "routes"
    /\ outcome = "raise" => Head(fmList) = "health" /\ faults < MaxFaults
    /\ faults' = IF outcome = "raise" THEN faults + 1 ELSE faults
    /\ routeVar' = IF outcome = "ok" /\ HasRoutesModule(Head(fmList))
                  THEN [routeVar EXCEPT ![ServiceName(Head(classList))] = curInst]
                  ELSE routeVar
    /\ endpoints' = EndpointsAfter(RoutesRun(Head(fmList), outcome).built)
    /\ rtLog' = Append(rtLog, [feature |-> Head(fmList),
                               service |-> ServiceName(Head(classList)),
                               built |-> RoutesRun(Head(fmList), outcome).built,
                               failed |-> RoutesRun(Head(fmList), outcome).failed])
    /\ rtLast' = IF RoutesBound(Head(fmList), outcome) THEN "bound" ELSE "failed"
    /\ LET ok == ClassResult(ifLast.ret, RoutesBound(Head(fmList), outcome))
       IN /\ ClassReturn(ok, "routes")
          /\ registry' = IF ok THEN registry ELSE RegistryAfterFailure
    /\ UNCHANGED <<initialized, dNextId, calls, callList, attempted,
                   instantiated, regOrder, noModule>>
    /\ UNCHANGED ifLast
    /\ UNCHANGED <<cvars, svars, ovars>>

\* the feature lists given to register_features
RECURSIVE SeqsUpTo(_)
SeqsUpTo(n) ==
    IF n = 0 THEN {<<>>}
    ELSE SeqsUpTo(n - 1) \cup
         {Append(q, f) : q \in {r \in SeqsUpTo(n - 1) : Len(r) = n - 1}, f \in Features}

\* a feature list names a feature at most once, as FEATURE_MODULES does
\* (config/constants.py:46-48); a feature is registered again by a later call
FeatureLists ==
    {q \in SeqsUpTo(MaxFeatures) : \A i, j \in 1..Len(q) : i # j => q[i] # q[j]}

\* lists of capability types of length n or less
RECURSIVE IfaceSeqsUpTo(_)
IfaceSeqsUpTo(n) ==
    IF n = 0 THEN {<<>>}
    ELSE IfaceSeqsUpTo(n - 1) \cup
         {Append(q, i) : q \in {r \in IfaceSeqsUpTo(n - 1) : Len(r) = n - 1},
                         i \in Interfaces}

\* AnnotationInterfaceStrategy.get_interfaces: the list the type declares in
\* __interfaces__ (empty when it declares none)
DeclaredLists == IfaceSeqsUpTo(MaxDeclared)

\* what the detection strategy of an InterfaceRegistrationManager may do for
\* cls: raise, or return the list of the default or of the annotation strategy
Detections(cls) ==
    {[raised |-> TRUE, list |-> <<>>]} \cup
    {[raised |-> FALSE, list |-> l] : l \in {get_interfaces(cls)} \cup DeclaredLists}

\* the service instance the caller hands to register_service_interfaces
ServiceObj(cls) == [id |-> 92, by |-> cls]

\* InterfaceRegistrationManager.register_service_interfaces(cls, inst) called
\* on its own, on a container whose register_instance raises for failing
CallRegisterServiceInterfaces(cls, det, failing) ==
    LET call == register_service_interfaces(singletons, cls, det,
                                            ServiceObj(cls), failing)
    IN
    /\ pc = "idle"
    /\ failing \subseteq {det.list[i] : i \in DOMAIN det.list}
    /\ singletons' = call.tab
    /\ regInst' = RegisterInterfacesTable(regInst, det.list, ServiceObj(cls), failing)
    /\ ifLast' = call
    /\ UNCHANGED <<services, factories, nextId, cLast, builtSince, wiped>>
    /\ UNCHANGED <<registry, features, initialized, routeVar, endpoints, dNextId,
                   pc, fmList, classList, curInst, rfRet, discRet, calls,
                   callList, attempted, instantiated, failAt, rtLast, faults,
                   regOrder, noModule, rtLog>>
    /\ UNCHANGED <<svars, ovars>>

InterfacesNext ==
    \/ \E cls \in ServiceClasses, failing \in SUBSET Interfaces :
          \E det \in Detections(cls) :
             CallRegisterServiceInterfaces(cls, det, failing)
    \/ \E c \in Interfaces : Resolve(c)
    \/ Clear

DiscoveryNext ==
    \/ \E list \in FeatureLists : RegisterFeatures(list)
    \/ FeaturesDone
    \/ \E cause \in {"absent", "import_inside_fails"} : DiscoverNoModule(cause)
    \/ DiscoverDetect
    \/ DiscoveryDone
    \/ \E o \in {"ok", "raise"} : Instantiate(o)
    \/ \E o \in {"true", "false", "raise"} : Initialize(o)
    \/ RegisterService
    \/ \E failing \in SUBSET Interfaces : RegisterInterfaces(failing)
    \/ \E o \in {"ok", "raise"} : SetupRoutes(o)

\* ------------------------------------------------------------------------
\* Application (application.py)
\* ------------------------------------------------------------------------
\* Application.__init__: not initialized, no start call made
ApplicationInit ==
    /\ appInit = FALSE
    /\ appPc = "idle"
    /\ startList = <<>>
    /\ startRet = "none"
    /\ startLog = <<>>
    /\ callsAtStart = 0
    /\ starts = 0

\* Application.start(feature_modules) is called; line 62: register_features is
\* called when feature_modules is not empty (and not None)
Start(list) ==
    /\ appPc = "idle"
    /\ pc = "idle"
    /\ starts < MaxStarts
    /\ list # <<>> => calls < MaxCalls
    /\ starts' = starts + 1
    /\ startList' = list
    /\ startRet' = "none"
    /\ startLog' = <<>>
    /\ callsAtStart' = calls
    /\ appPc' = IF list # <<>> THEN "register" ELSE "configure"
    /\ UNCHANGED appInit
    /\ UNCHANGED <<cvars, svars, dvars, tvars, nvars, wvars, pvars>>

\* start, line 62: register_features of the FeatureManager is called
StartRegisterFeatures ==
    /\ appPc = "register"
    /\ calls = callsAtStart
    /\ RegisterFeatures(startList)

\* a start that goes on to the configurator whatever register_features returned
StartProceedsAlways(ok) == TRUE

\* start, lines 62-63: start goes on when register_features returned True, and
\* raises otherwise
StartProceeds(ok) == ok

\* a failing start that sets the flag all the same
StartFailedSetsFlag == [ret |-> "false", init |-> TRUE]

\* start, lines 72-74: an exception of the sequence is caught and logged;
\* start returns False and leaves _is_initialized as it is
StartFailed == [ret |-> "false", init |-> appInit]

\* start, lines 62-63: register_features returned
StartRegistered ==
    /\ appPc = "register"
    /\ calls = callsAtStart + 1
    /\ pc = "idle"
    /\ startLog' = Append(startLog, IF rfRet = "true" THEN "registered"
                                    ELSE "register_failed")
    /\ IF StartProceeds(rfRet = "true")
       THEN /\ appPc' = "configure"
            /\ UNCHANGED <<startRet, appInit>>
       ELSE /\ appPc' = "idle"
            /\ startRet' = StartFailed.ret
            /\ appInit' = StartFailed.init
    /\ UNCHANGED <<startList, callsAtStart, starts>>
    /\ UNCHANGED <<cvars, svars, dvars, tvars, nvars, wvars, pvars>>

\* start, line 62, with a feature manager (any IFeatureManager) whose
\* register_features raises
StartRegisterRaises ==
    /\ appPc = "register"
    /\ calls = callsAtStart
    /\ startLog' = Append(startLog, "register_raised")
    /\ appPc' = "idle"
    /\ startRet' = StartFailed.ret
    /\ appInit' = StartFailed.init
    /\ UNCHANGED <<startList, callsAtStart, starts>>
    /\ UNCHANGED <<cvars, svars, dvars, tvars, nvars, wvars, pvars>>

\* start, line 66: configure_eel of the configurator returns or raises
Configure(outcome) ==
    /\ appPc = "configure"
    /\ IF outcome = "ok"
       THEN /\ startLog' = Append(startLog, "configured")
            /\ appPc' = "flag"
            /\ UNCHANGED <<startRet, appInit>>
       ELSE /\ startLog' = Append(startLog, "configure_raised")
            /\ appPc' = "idle"
            /\ startRet' = StartFailed.ret
            /\ appInit' = StartFailed.init
    /\ UNCHANGED <<startList, callsAtStart, starts>>
    /\ UNCHANGED <<cvars, svars, dvars, tvars, nvars, wvars, pvars>>

\* start, lines 68-70: the flag is set and start returns True
SetInitialized ==
    /\ appPc = "flag"
    /\ appInit' = TRUE
    /\ startLog' = Append(startLog, "initialized")
    /\ appPc' = "idle"
    /\ startRet' = "true"
    /\ UNCHANGED <<startList, callsAtStart, starts>>
    /\ UNCHANGED <<cvars, svars, dvars, tvars, nvars, wvars, pvars>>

\* ------------------------------------------------------------------------
\* WebAPI and the exposed endpoint (api.py)
\* ------------------------------------------------------------------------
\* the Application objects of a process: the one initialize_app creates and
\* starts (main.py:28-32), whose fields are appInit and the start call, and the
\* one a WebAPI creates for itself (api.py:33-36)
Applications == {"startup", "own"}

\* an API response (responses.py): success, the error message, the data
\* (the empty set: None)
NoResponse == [called |-> FALSE, success |-> FALSE, error |-> "-", data |-> {}]

\* no WebAPI was built, the endpoint was not called
WebInit ==
    /\ apiApp = "none"
    /\ apiRet = NoResponse

\* WebAPI._create_application: ApplicationFactory.create() builds a new
\* Application
create_application == "own"

\* WebAPI.__init__(application), line 31: application or the one it creates
WebAPI(application) ==
    IF application # "none" THEN application ELSE create_application

\* _web_api_factory, line 58: WebAPI() with no application; get_web_api
\* returns the cached WebAPI once it was built
get_web_api == IF apiApp # "none" THEN apiApp ELSE WebAPI("none")

\* Application.is_initialized: the flag of the started Application is appInit;
\* the Application a WebAPI created keeps the False of its constructor
\* (application.py:41), start being called on the startup Application alone
\* (main.py:32)
is_initialized(app) == IF app = "startup" THEN appInit ELSE FALSE

\* Application.get_status: the status of its FeatureManager and its flag; the
\* FeatureManager of the Application a WebAPI created (application.py:101-103)
\* holds no feature record
get_status(app) ==
    [features |-> IF app = "startup" THEN get_features_status
                  ELSE [get_features_status EXCEPT
                           !.total_features = 0,
                           !.features = [f \in {} |-> [status |-> "none"]]],
     initialized |-> is_initialized(app)]

\* WebAPI.get_application_status, lines 45-52
get_application_status(app) ==
    IF ~is_initialized(app)
    THEN [called |-> TRUE, success |-> FALSE,
          error |-> "Application not initialized", data |-> {}]
    ELSE [called |-> TRUE, success |-> TRUE, error |-> "-",
          data |-> {get_status(app)}]

\* the frontend calls the exposed get_features_status (api.py:68-71):
\* get_web_api().get_application_status(); the server that takes the calls
\* runs once initialize_app returned (main.py:47-57), so no start call is in
\* progress
GetFeaturesStatusEndpoint ==
    /\ appPc = "idle"
    /\ apiApp' = get_web_api
    /\ apiRet' = get_application_status(get_web_api)
    /\ UNCHANGED <<cvars, svars, dvars, avars, tvars, nvars, pvars>>

\* Application.start with the FeatureManager of the process: the steps of
\* start and, inside its register_features call, those of the discovery (on
\* the Container of the process, whose register_instance does not raise)
ApplicationNext ==
    \/ \E list \in FeatureLists : Start(list)
    \/ StartRegisterFeatures
    \/ StartRegistered
    \/ StartRegisterRaises
    \/ \E o \in {"ok", "raise"} : Configure(o)
    \/ SetInitialized
    \/ FeaturesDone
    \/ \E cause \in {"absent", "import_inside_fails"} : DiscoverNoModule(cause)
    \/ DiscoverDetect
    \/ DiscoveryDone
    \/ \E o \in {"ok", "raise"} : Instantiate(o)
    \/ \E o \in {"true", "false", "raise"} : Initialize(o)
    \/ RegisterService
    \/ RegisterInterfaces({})
    \/ SetupRoutes("ok")
    \/ GetFeaturesStatusEndpoint

\* ------------------------------------------------------------------------
\* SingletonFactory.get_instance called by several threads
\* (singleton_factory.py:43-47)
\* ------------------------------------------------------------------------
Threads == 1..MaxThreads

\* no thread has called get_instance
ThreadsInit ==
    /\ tpc = [t \in Threads |-> "idle"]
    /\ tfid = [t \in Threads |-> 0]
    /\ tobj = [t \in Threads |-> NoObj]
    /\ tret = [t \in Threads |-> NoObj]

\* SingletonRegistry.get_instance(n): thread t looks the factory of n up and
\* calls its get_instance; nothing holds the thread back (_lock is None,
\* line 41, and is never taken)
TEnter(t, n) ==
    /\ tpc[t] = "idle"
    /\ regFactories[n] # 0
    /\ tfid' = [tfid EXCEPT ![t] = regFactories[n]]
    /\ tpc' = [tpc EXCEPT ![t] = "check"]
    /\ UNCHANGED <<tobj, tret>>
    /\ UNCHANGED <<cvars, svars, dvars, avars, nvars, wvars, pvars>>

\* get_instance, line 45: the test `self._instance is None`
TCheck(t) ==
    /\ tpc[t] = "check"
    /\ tpc' = [tpc EXCEPT ![t] = IF sfInst[tfid[t]] = NoObj THEN "call"
                                 ELSE "return"]
    /\ UNCHANGED <<tfid, tobj, tret>>
    /\ UNCHANGED <<cvars, svars, dvars, avars, nvars, wvars, pvars>>

\* get_instance, line 46, right-hand side: the factory function is called and
\* builds a new object
TCall(t) ==
    /\ tpc[t] = "call"
    /\ sNextId <= MaxBuilt
    /\ tobj' = [tobj EXCEPT ![t] = [id |-> sNextId, by |-> sfFunc[tfid[t]]]]
    /\ sNextId' = sNextId + 1
    /\ tpc' = [tpc EXCEPT ![t] = "store"]
    /\ UNCHANGED <<tfid, tret>>
    /\ UNCHANGED <<sfFunc, sfInst, regFactories, sLast, got, cachedAtReg, dropped>>
    /\ UNCHANGED <<cvars, dvars, avars, nvars, wvars, pvars>>

\* get_instance, line 46, the assignment to self._instance
TStore(t) ==
    /\ tpc[t] = "store"
    /\ sfInst' = [sfInst EXCEPT ![tfid[t]] = tobj[t]]
    /\ tpc' = [tpc EXCEPT ![t] = "return"]
    /\ UNCHANGED <<tfid, tobj, tret>>
    /\ UNCHANGED <<sfFunc, regFactories, sNextId, sLast, got, cachedAtReg, dropped>>
    /\ UNCHANGED <<cvars, dvars, avars, nvars, wvars, pvars>>

\* get_instance, line 47: self._instance is read and returned
TReturn(t) ==
    /\ tpc[t] = "return"
    /\ tret' = [tret EXCEPT ![t] = sfInst[tfid[t]]]
    /\ tpc' = [tpc EXCEPT ![t] = "done"]
    /\ UNCHANGED <<tfid, tobj>>
    /\ UNCHANGED <<cvars, svars, dvars, avars, nvars, wvars, pvars>>

\* the factories are registered, then threads call get_instance, each once,
\* in any interleaving of the steps of the calls
ThreadsNext ==
    \/ \E n \in Names :
          (\A t \in Threads : tpc[t] = "idle") /\ RegisterNewFactory(n)
    \/ \E t \in Threads, n \in Names : TEnter(t, n)
    \/ \E t \in Threads : TCheck(t)
    \/ \E t \in Threads : TCall(t)
    \/ \E t \in Threads : TStore(t)
    \/ \E t \in Threads : TReturn(t)

\* ------------------------------------------------------------------------
\* The detectors called on their own (service_detector.py,
\* interface_manager.py)
\* ------------------------------------------------------------------------
\* the members a namespace may declare: two service types, a second name for
\* the first of them, the base implementation (a class that is no service)
\* and a function
MemberPool ==
    {Member("AlphaService", "AlphaService"), Member("BetaService", "BetaService"),
     Member("Svc", "AlphaService"), Member("BaseService", "BaseService"),
     Member("helper", "helper()")}

\* the namespaces: up to MaxMembers members in the order of their
\* declaration, each name bound once
Namespaces ==
    UNION {{ns \in [1..n -> MemberPool] :
               \A i, j \in 1..n : i # j => ns[i].name # ns[j].name} :
           n \in 0..MaxMembers}

\* the Container a manager is given: no instance registered
EmptyContainer == [t \in Types |-> NoObj]

\* no get_service_classes call and no register_service_interfaces call made
DetectorsInit ==
    /\ scanNs = <<>>
    /\ scanRet = ScanResult(<<>>)
    /\ detCall = [NoCall EXCEPT !.tab = EmptyContainer]

\* BaseServiceDetector().get_service_classes(ns)
Scan(ns) ==
    /\ scanNs' = ns
    /\ scanRet' = DetectServiceClasses(ns)
    /\ UNCHANGED detCall
    /\ UNCHANGED <<cvars, svars, dvars, avars, tvars, wvars, pvars>>

\* InterfaceRegistrationManager(container).register_service_interfaces(cls,
\* inst) with the default strategy (line 117), on a Container that holds
\* nothing and whose register_instance does not raise
DetectInterfaces(cls) ==
    /\ detCall' = register_service_interfaces(
                      EmptyContainer, cls,
                      [raised |-> FALSE, list |-> get_interfaces(cls)],
                      ServiceObj(cls), {})
    /\ UNCHANGED <<scanNs, scanRet>>
    /\ UNCHANGED <<cvars, svars, dvars, avars, tvars, wvars, pvars>>

DetectorsNext ==
    \/ \E ns \in Namespaces : Scan(ns)
    \/ \E cls \in {t \in Types : is_service_class(t)} : DetectInterfaces(cls)

\* ------------------------------------------------------------------------
\* The process-wide Container and ServiceRegistry (container.py:134-146,
\* registry.py:318-325) and the objects that hold on to them
\* ------------------------------------------------------------------------
\* the names of the services of the namespaces
ServiceNames == {ServiceName(cls) : cls \in ServiceClasses}

\* Container.__init__: no instance registered
NoSingletons == [cls \in ServiceClasses |-> NoObj]

\* ServiceRegistry.__init__, line 30: no service stored
NoServices == [n \in ServiceNames |-> NoObj]

\* no register_service or register_features call made yet
NoProcessCall ==
    [op |-> "none", ret |-> TRUE, reg |-> 0, name |-> "-", inst |-> NoObj,
     mgr |-> 0, feature |-> "-"]

\* the module level of container.py and registry.py: both factories
\* registered, no instance built
ProcessInit ==
    /\ held = [n \in Names |-> 0]
    /\ pContainers = <<>>
    /\ pRegistries = <<>>
    /\ pManagers = <<>>
    /\ pNextId = 1
    /\ pCalls = 0
    /\ pLast = NoProcessCall

\* the objects a call works on
World == [held |-> held, containers |-> pContainers, registries |-> pRegistries]

\* get_container(), lines 139-141: the Container the factory holds, built by
\* `lambda: Container()` when it holds none; w.held["container"] is what the
\* call returns
get_container(w) ==
    IF w.held["container"] # 0 THEN w
    ELSE [w EXCEPT !.containers = Append(@, NoSingletons),
                   !.held["container"] = Len(w.containers) + 1]

\* ServiceRegistry.__init__, lines 28-31: the new registry keeps the Container
\* that get_container() returns at this moment
NewServiceRegistry(w) ==
    LET c == get_container(w)
    IN [c EXCEPT !.registries =
            Append(@, [container |-> c.held["container"],
                       services |-> NoServices, order |-> <<>>])]

\* get_service_registry(), lines 323-325: the ServiceRegistry the factory
\* holds, built by `lambda: ServiceRegistry()` when it holds none
get_service_registry(w) ==
    IF w.held["service_registry"] # 0 THEN w
    ELSE LET n == NewServiceRegistry(w)
         IN [n EXCEPT !.held["service_registry"] = Len(n.registries)]

\* can the call be made with MaxObjects objects of each kind
CanGetContainer(w) ==
    w.held["container"] = 0 => Len(w.containers) < MaxObjects

CanGetServiceRegistry(w) ==
    w.held["service_registry"] = 0 =>
        /\ Len(w.registries) < MaxObjects
        /\ CanGetContainer(w)

\* the keys of a dict after d[name] = value
KeysAfter(order, name) ==
    IF \E i \in 1..Len(order) : order[i] = name THEN order
    ELSE Append(order, name)

\* the ways a register_service call can go: both statements of the try block
\* run, the first one raises, or the second one raises
RegisterOutcomes == {"ok", "store_raises", "mirror_raises"}

\* ServiceRegistry.register_service(name, inst) of registry r, lines 44-50:
\* line 45 stores the instance, line 46 mirrors it into the Container the
\* registry kept, under type(inst); an exception of either is answered False
register_service(w, r, name, inst, outcome) ==
    LET c == w.registries[r].container
        stored == [w EXCEPT !.registries[r].services[name] = inst,
                            !.registries[r].order = KeysAfter(@, name)]
        mirrored == [stored EXCEPT !.containers[c][inst.by] = inst]
    IN IF outcome = "store_raises" THEN [w |-> w, ret |-> FALSE]
       ELSE IF outcome = "mirror_raises" THEN [w |-> stored, ret |-> FALSE]
       ELSE [w |-> mirrored, ret |-> TRUE]

\* ServiceRegistry.get_service(name) of registry r (NoObj: None)
get_service(r, name) == pRegistries[r].services[name]

\* Container.resolve(cls) of a Container that holds instances only: lines
\* 91-93 answer with the instance, line 108 raises ValueError
ResolveIn(tab, cls) ==
    IF tab[cls] # NoObj THEN [err |-> FALSE, ret |-> tab[cls]]
    ELSE [err |-> TRUE, ret |-> NoObj]

\* get_container().resolve(cls): on the Container the factory holds, or on
\* the new one get_container() builds
ResolveInCurrent(cls) ==
    ResolveIn(IF held["container"] # 0 THEN pContainers[held["container"]]
              ELSE NoSingletons, cls)

\* a caller asks for the process-wide Container
GetContainer ==
    /\ CanGetContainer(World)
    /\ held' = get_container(World).held
    /\ pContainers' = get_container(World).containers
    /\ UNCHANGED <<pRegistries, pManagers, pNextId, pCalls, pLast>>
    /\ UNCHANGED <<cvars, svars, dvars, avars, tvars, nvars, wvars>>

\* a caller asks for the process-wide ServiceRegistry
GetServiceRegistry ==
    /\ CanGetServiceRegistry(World)
    /\ held' = get_service_registry(World).held
    /\ pContainers' = get_service_registry(World).containers
    /\ pRegistries' = get_service_registry(World).registries
    /\ UNCHANGED <<pManagers, pNextId, pCalls, pLast>>
    /\ UNCHANGED <<cvars, svars, dvars, avars, tvars, nvars, wvars>>

\* reset_container(), lines 144-146, and reset_instance('service_registry'):
\* the factory forgets its instance; the objects that kept it still have it
ResetProcessInstance(n) ==
    /\ held' = [held EXCEPT ![n] = 0]
    /\ UNCHANGED <<pContainers, pRegistries, pManagers, pNextId, pCalls, pLast>>
    /\ UNCHANGED <<cvars, svars, dvars, avars, tvars, nvars, wvars>>

\* register_service(ServiceName(cls), a new instance of cls) is called on the
\* ServiceRegistry r
CallRegisterService(r, cls, outcome) ==
    /\ r \in 1..Len(pRegistries)
    /\ pCalls < MaxRegistrations
    /\ LET inst == [id |-> pNextId, by |-> cls]
           res == register_service(World, r, ServiceName(cls), inst, outcome)
       IN /\ pContainers' = res.w.containers
          /\ pRegistries' = res.w.registries
          /\ pLast' = [NoProcessCall EXCEPT !.op = "register_service",
                                            !.ret = res.ret, !.reg = r,
                                            !.name = ServiceName(cls),
                                            !.inst = inst]
    /\ pNextId' = pNextId + 1
    /\ pCalls' = pCalls + 1
    /\ UNCHANGED <<held, pManagers>>
    /\ UNCHANGED <<cvars, svars, dvars, avars, tvars, nvars, wvars>>

\* FeatureManager.__init__, lines 244-247: no feature record, and the
\* ServiceRegistry that get_service_registry() returns at this moment
NewFeatureManager ==
    /\ Len(pManagers) < MaxManagers
    /\ CanGetServiceRegistry(World)
    /\ held' = get_service_registry(World).held
    /\ pContainers' = get_service_registry(World).containers
    /\ pRegistries' = get_service_registry(World).registries
    /\ pManagers' = Append(pManagers,
                           [registry |-> held'["service_registry"],
                            features |-> {}])
    /\ UNCHANGED <<pNextId, pCalls, pLast>>
    /\ UNCHANGED <<cvars, svars, dvars, avars, tvars, nvars, wvars>>

\* _register_service_class for each service type of a list, on registry r,
\* every instantiation and initialize() succeeding: the instances get the
\* identities id, id + 1, ...
RECURSIVE RegisterAll(_, _, _, _)
RegisterAll(w, r, classes, id) ==
    IF classes = <<>> THEN w
    ELSE RegisterAll(register_service(w, r, ServiceName(Head(classes)),
                                      [id |-> id, by |-> Head(classes)],
                                      "ok").w,
                     r, Tail(classes), id + 1)

\* auto_discover_services(namespace), lines 338-340, called by
\* register_features of manager m: the discovery works on the ServiceRegistry
\* that get_service_registry() returns at this moment
auto_discover_services(w, m, f, id) ==
    LET g == get_service_registry(w)
    IN [w |-> RegisterAll(g, g.held["service_registry"],
                          get_service_classes(f), id),
        reg |-> g.held["service_registry"]]

\* FeatureManager.get_features_status()['services'] of manager m, line 286:
\* the keys of the ServiceRegistry the manager kept
StatusServices(m) == pRegistries[pManagers[m].registry].order

\* register_features([(f, namespace)]) is called on the FeatureManager m, the
\* discovery of the namespace succeeding (its steps and failures are those of
\* the feature registration above)
CallRegisterFeatures(m, f) ==
    /\ m \in 1..Len(pManagers)
    /\ HasServiceModule(f)
    /\ pCalls < MaxRegistrations
    /\ CanGetServiceRegistry(World)
    /\ LET res == auto_discover_services(World, m, f, pNextId)
       IN /\ held' = res.w.held
          /\ pContainers' = res.w.containers
          /\ pRegistries' = res.w.registries
          /\ pLast' = [NoProcessCall EXCEPT !.op = "register_features",
                                            !.reg = res.reg, !.mgr = m,
                                            !.feature = f]
    /\ pManagers' = [pManagers EXCEPT ![m].features = @ \cup {f}]
    /\ pNextId' = pNextId + Len(get_service_classes(f))
    /\ pCalls' = pCalls + 1
    /\ UNCHANGED <<cvars, svars, dvars, avars, tvars, nvars, wvars>>

ProcessNext ==
    \/ GetContainer
    \/ GetServiceRegistry
    \/ \E n \in Names : ResetProcessInstance(n)
    \/ \E r \in 1..MaxObjects, cls \in ServiceClasses, o \in RegisterOutcomes :
           CallRegisterService(r, cls, o)
    \/ NewFeatureManager
    \/ \E m \in 1..MaxManagers, f \in Features : CallRegisterFeatures(m, f)

\* ------------------------------------------------------------------------
\* Specifications
\* ------------------------------------------------------------------------
Init ==
    /\ ContainerInit
    /\ SingletonInit
    /\ DiscoveryInit
    /\ ApplicationInit
    /\ ThreadsInit
    /\ DetectorsInit
    /\ WebInit
    /\ ProcessInit

Next ==
    \/ ContainerNext
    \/ SingletonNext
    \/ DiscoveryNext
    \/ InterfacesNext
    \/ ApplicationNext
    \/ ThreadsNext
    \/ DetectorsNext
    \/ ProcessNext

Spec == Init /\ [][Next]_vars

\* the Container driven alone
SpecContainer == Init /\ [][ContainerNext]_vars

\* the SingletonRegistry driven alone
SpecSingleton == Init /\ [][SingletonNext]_vars

\* feature registration driven alone
SpecDiscovery == Init /\ [][DiscoveryNext]_vars

\* an InterfaceRegistrationManager driven alone, on the Container
SpecInterfaces == Init /\ [][InterfacesNext]_vars

\* the Application driven alone, with the feature registration it calls
SpecApplication == Init /\ [][ApplicationNext]_vars

\* threads calling get_instance of the registered singleton factories
SpecThreads == Init /\ [][ThreadsNext]_vars

\* the detectors alone
SpecDetectors == Init /\ [][DetectorsNext]_vars

\* the process-wide Container and ServiceRegistry, and the registries and
\* managers built on them
SpecProcess == Init /\ [][ProcessNext]_vars

\* ------------------------------------------------------------------------
\* Feature registration and discovery (SpecDiscovery)
\* ------------------------------------------------------------------------
\* the service types of namespace f, as a set
ClassesOf(f) == {get_service_classes(f)[k] : k \in 1..Len(get_service_classes(f))}

\* C1: when a namespace declares two service types and initialize() of the
\* second one fails, neither of the two services is in the ServiceRegistry
\* after the call (no partial commit of the first service).
C1_NoPartialCommit ==
    (/\ pc = "idle"
     /\ failAt.feature = "pair"
     /\ failAt.class = "BetaService"
     /\ failAt.step = "initialize")
    => (registry["alpha"] = NoObj /\ registry["beta"] = NoObj)

\* C2: when instantiation raises or initialize() returns False or raises for a
\* detected service type, discover_and_register_services returns False and
\* stops there: the service types instantiated by that call are exactly those
\* of the namespace up to the failing one, and none after it.
C2_FailureStopsDiscovery ==
    failAt # NoFail =>
        /\ discRet = "false"
        /\ \E i \in 1..Len(get_service_classes(failAt.feature)) :
              /\ get_service_classes(failAt.feature)[i] = failAt.class
              /\ instantiated = SubSeq(get_service_classes(failAt.feature), 1, i)

\* a discovery failed at the first of two service types: the second one was
\* never instantiated
C2_Witness ==
    /\ failAt.feature = "pair"
    /\ failAt.class = "AlphaService"
    /\ failAt.step = "initialize"
    /\ discRet = "false"
    /\ instantiated = <<"AlphaService">>

\* C3: register_features takes the features in list order; at the first
\* feature whose discovery fails it returns False, no later feature is
\* attempted, and the records and services of the features registered earlier
\* in the call stay in place (the services of a feature are those of its
\* service module, when the module could be imported).
C3_FailFastNoRollback ==
    /\ Len(attempted) <= Len(callList)
    /\ attempted = SubSeq(callList, 1, Len(attempted))
    /\ (rfRet = "false") <=> (discRet = "false")
    /\ discRet = "false" =>
        /\ pc = "idle"
        /\ attempted # <<>>
        /\ failAt.feature = attempted[Len(attempted)]
        /\ \A i \in 1..(Len(attempted) - 1) :
              /\ features[attempted[i]] = "active"
              /\ attempted[i] \notin noModule =>
                    \A cls \in ClassesOf(attempted[i]) :
                        registry[ServiceName(cls)] # NoObj

\* a call on three features failed at the second: 'health' before it is
\* active with its service, the third was not attempted
C3_Witness ==
    /\ rfRet = "false"
    /\ Len(callList) = 3
    /\ attempted = <<"health", "pair">>
    /\ features["health"] = "active"
    /\ registry["health"] # NoObj

\* ------------------------------------------------------------------------
\* Container (SpecContainer)
\* ------------------------------------------------------------------------
\* C4: for a capability held by more than one table, resolve returns the
\* registered instance if there is one, otherwise the memoized instance of the
\* singleton class (constructed and kept on the first resolve), otherwise a
\* new object of the factory that is not kept; whatever the order of the
\* registrations.
C4_ResolvePrecedence ==
    [][\A c \in Caps :
        (cLast'.op = "resolve" /\ cLast'.cap = c) =>
            IF regInst[c] # NoObj
            THEN /\ ~cLast'.err
                 /\ cLast'.ret = regInst[c]
                 /\ nextId' = nextId
            ELSE IF services[c] # None
            THEN /\ ~cLast'.err
                 /\ cLast'.ret = singletons'[c]
                 /\ IF singletons[c] # NoObj
                    THEN cLast'.ret = singletons[c] /\ nextId' = nextId
                    ELSE /\ cLast'.ret = [id |-> nextId, by |-> services[c]]
                         /\ nextId' = nextId + 1
            ELSE IF factories[c] # None
            THEN /\ ~cLast'.err
                 /\ cLast'.ret = [id |-> nextId, by |-> factories[c]]
                 /\ nextId' = nextId + 1
                 /\ singletons'[c] = NoObj
            ELSE TRUE]_vars

\* resolve returned the registered instance of a capability that also has a
\* singleton class and a factory
C4_Witness ==
    \E c \in Caps :
        /\ cLast.op = "resolve"
        /\ cLast.cap = c
        /\ regInst[c] # NoObj
        /\ services[c] # None
        /\ factories[c] # None
        /\ cLast.ret = regInst[c]

\* C5: resolve of a capability that is in none of the three tables raises
\* ValueError; it returns no value and changes no table.
C5_UnregisteredResolveFails ==
    [][\A c \in Caps :
        (cLast'.op = "resolve" /\ cLast'.cap = c /\ ~is_registered(c)) =>
            /\ cLast'.err
            /\ cLast'.ret = NoObj
            /\ UNCHANGED <<services, singletons, factories, nextId>>]_vars

\* resolve failed for a capability no table holds while another capability
\* is registered
C5_Witness ==
    /\ cLast.op = "resolve"
    /\ cLast.err
    /\ ~is_registered(cLast.cap)
    /\ \E d \in Caps : is_registered(d)

\* C6: after register_instance(c, x), resolve(c) returns x whatever register,
\* register_factory and resolve calls follow, until register_instance(c, y)
\* (from then on y) or clear().
C6_InstanceStable ==
    \A c \in Caps :
        regInst[c] # NoObj =>
            /\ singletons[c] = regInst[c]
            /\ (cLast.op = "resolve" /\ cLast.cap = c) =>
                   (~cLast.err /\ cLast.ret = regInst[c])

\* resolve returned the registered instance although a class was registered
\* for the capability and an object was constructed for another resolve
C6_Witness ==
    \E c \in Caps :
        /\ cLast.op = "resolve"
        /\ cLast.cap = c
        /\ regInst[c] \in Prebuilt
        /\ cLast.ret = regInst[c]
        /\ services[c] # None
        /\ nextId > 1

\* C7: register(c, Impl, singleton=True) constructs nothing; the first
\* resolve(c) constructs Impl and keeps it, every later resolve(c) returns
\* that same instance, so at most one object is constructed for c between
\* the registration and clear(). (An instance given to register_instance for
\* c takes its place: C4, C6.)
C7_LazySingleton ==
    [][\A c \in Caps :
        /\ (cLast'.op = "register" /\ cLast'.cap = c) =>
               (nextId' = nextId /\ singletons' = singletons)
        /\ (cLast'.op = "resolve" /\ cLast'.cap = c /\ services[c] # None) =>
               IF singletons[c] = NoObj
               THEN /\ cLast'.ret = [id |-> nextId, by |-> services[c]]
                    /\ singletons'[c] = cLast'.ret
               ELSE /\ cLast'.ret = singletons[c]
                    /\ singletons'[c] = singletons[c]
                    /\ nextId' = nextId
        /\ (/\ services[c] # None
            /\ singletons[c] # NoObj
            /\ cLast'.op # "clear"
            /\ ~(cLast'.op = "register_instance" /\ cLast'.cap = c)) =>
               singletons'[c] = singletons[c]
        /\ services'[c] # None => builtSince'[c] <= 1]_vars

\* a later resolve returned the instance the first resolve constructed: the
\* instance is older than the newest object of the Container
C7_Witness ==
    \E c \in Caps :
        /\ cLast.op = "resolve"
        /\ cLast.cap = c
        /\ services[c] # None
        /\ regInst[c] = NoObj
        /\ builtSince[c] = 1
        /\ cLast.ret = singletons[c]
        /\ cLast.ret.by = services[c]
        /\ cLast.ret.id + 1 < nextId

\* ------------------------------------------------------------------------
\* SingletonRegistry (SpecSingleton)
\* ------------------------------------------------------------------------
\* the names whose cached instance the last reset was to drop
ResetNames ==
    IF sLast.op = "reset_all" THEN {n \in Names : regFactories[n] # 0}
    ELSE IF sLast.op = "reset_instance" THEN {sLast.name} ELSE {}

\* C8: get_instance(name) called repeatedly with no reset in between returns
\* the same object; after reset_instance(name) or reset_all() the next
\* get_instance(name) calls the factory function again and returns a new
\* object.
C8_SameUntilReset ==
    /\ \A n \in Names : Cardinality(got[n]) <= 1
    /\ \A n \in ResetNames :
          regFactories[n] # 0 =>
              /\ GetInstanceOutcome(n).made = 1
              /\ GetInstanceOutcome(n).ret \notin dropped

\* C9: register_factory(name, f2) for a name that has a cached instance
\* leaves that instance in place: get_instance(name) returns it until a reset.
C9_ReplacedFactoryKeepsInstance ==
    (/\ sLast.op = "get_instance"
     /\ ~sLast.err
     /\ cachedAtReg[sLast.name] # NoObj)
    => sLast.ret = cachedAtReg[sLast.name]

\* C10: reset_instance and reset_all leave every factory registered: no name
\* loses its factory, so get_instance after the reset does not raise KeyError,
\* and for the names that were reset it builds a new instance.
C10_ResetKeepsFactories ==
    [][(sLast'.op \in {"reset_instance", "reset_all"}) =>
        /\ regFactories' = regFactories
        /\ sfFunc' = sfFunc
        /\ \A n \in Names :
              regFactories[n] # 0 => ~(GetInstanceOutcome(n).err)'
        /\ \A n \in ResetNames' :
              regFactories[n] # 0 =>
                  /\ (GetInstanceOutcome(n).made)' = 1
                  /\ (GetInstanceOutcome(n).ret)' \notin dropped']_vars

\* a reset dropped a cached instance and the name still has its factory
C10_Witness ==
    /\ sLast.op = "reset_instance"
    /\ dropped # {}
    /\ regFactories[sLast.name] # 0
    /\ sfInst[regFactories[sLast.name]] = NoObj

\* C11: reset_instance(name) leaves the cached instance of every other name
\* (a name that holds a factory of its own, as each process singleton does)
\* unchanged: get_instance(other) returns the same object before and after.
C11_ResetIsolation ==
    [][(sLast'.op = "reset_instance") =>
        \A m \in Names :
            (/\ m # sLast'.name
             /\ regFactories[m] # 0
             /\ regFactories[m] # regFactories[sLast'.name]) =>
                /\ Cached(m)' = Cached(m)
                /\ (Cached(m) # NoObj =>
                      /\ (GetInstanceOutcome(m).ret)' = Cached(m)
                      /\ (GetInstanceOutcome(m).made)' = 0)]_vars

\* reset_instance dropped the instance of one name while the other name, with
\* a factory of its own, holds an instance
C11_Witness ==
    /\ sLast.op = "reset_instance"
    /\ dropped # {}
    /\ \E m \in Names :
          /\ m # sLast.name
          /\ regFactories[m] # 0
          /\ regFactories[m] # regFactories[sLast.name]
          /\ Cached(m) # NoObj

\* C12: get_instance(name) raises KeyError exactly when no factory was ever
\* registered under name (a registered name never loses its factory), and then
\* it builds nothing and changes no state of the registry or of any factory.
C12_KeyErrorIffUnregistered ==
    [][/\ \A n \in Names : regFactories[n] # 0 => regFactories'[n] # 0
       /\ (sLast'.op = "get_instance") =>
             /\ sLast'.err <=> (regFactories[sLast'.name] = 0)
             /\ sLast'.err =>
                   /\ sLast'.ret = NoObj
                   /\ sfInst' = sfInst
                   /\ sfFunc' = sfFunc
                   /\ regFactories' = regFactories
                   /\ sNextId' = sNextId]_vars

\* get_instance failed on a name without factory while the other name has one
\* that holds an instance
C12_Witness ==
    /\ sLast.op = "get_instance"
    /\ sLast.err
    /\ regFactories[sLast.name] = 0
    /\ \E m \in Names : Cached(m) # NoObj

\* ------------------------------------------------------------------------
\* Container, continued (SpecContainer)
\* ------------------------------------------------------------------------
\* C13: after clear(), is_registered(c) is false and resolve(c) raises
\* ValueError for every capability c, whatever had been registered for it (a
\* class, an instance, a factory) and whether or not a singleton had been
\* constructed; the calls made right after clear() answer so.
C13_ClearForgetsAll ==
    [][/\ (cLast'.op = "clear") =>
             \A c \in Keys : /\ ~(is_registered(c))'
                             /\ (ResolveOutcome(c).err)'
                             /\ (ResolveOutcome(c).made)' = 0
       /\ (cLast.op = "clear" /\ cLast'.op \in {"resolve", "is_registered"}) =>
             /\ cLast'.err
             /\ cLast'.ret = NoObj
             /\ nextId' = nextId
             /\ singletons' = singletons]_vars

\* clear() dropped a class, an instance, a factory and a constructed singleton
C13_Witness ==
    /\ cLast.op = "clear"
    /\ wiped = {"class", "instance", "factory", "built"}

\* c is registered only with register(c, Impl, singleton = False): its class is
\* in the factory table, and no class and no instance is held for it
OnlyTransient(c) ==
    /\ factories[c] \in Impls
    /\ services[c] = None
    /\ singletons[c] = NoObj

\* C14: for a capability registered only with register(c, Impl, False), every
\* resolve(c) constructs a new Impl, an object no earlier call returned and the
\* Container does not hold, and nothing is cached in the Container.
C14_TransientAlwaysNew ==
    [][(/\ cLast'.op = "resolve"
        /\ OnlyTransient(cLast'.cap)) =>
           /\ ~cLast'.err
           /\ cLast'.ret = [id |-> nextId, by |-> factories[cLast'.cap]]
           /\ nextId' = nextId + 1
           /\ (cLast.ret.id < nextId \/ cLast.ret \in Prebuilt)
           /\ \A k \in Keys : singletons[k] # cLast'.ret
           /\ cLast'.ret # cLast.ret
           /\ singletons' = singletons
           /\ factories' = factories
           /\ services' = services]_vars

\* two resolves in a row of a capability registered only as a non-singleton
\* class: the second returned the second object built
C14_Witness ==
    /\ cLast.op = "resolve"
    /\ ~cLast.err
    /\ OnlyTransient(cLast.cap)
    /\ cLast.ret = [id |-> 2, by |-> factories[cLast.cap]]
    /\ nextId = 3
    /\ \A k \in Keys : singletons[k] = NoObj

\* ------------------------------------------------------------------------
\* Feature registration and discovery, continued (SpecDiscovery)
\* ------------------------------------------------------------------------
\* C15: discovery on a namespace without service module returns true and
\* leaves the ServiceRegistry and the Container as they are: no service is
\* instantiated or registered and no endpoint class is built; so it is
\* whenever the call is made, a repeated call included.
C15_AbsentModuleIsSuccess ==
    [][(/\ pc = "feature"
        /\ fmList # <<>>
        /\ ~HasServiceModule(Head(fmList))) =>
           /\ discRet' = "true"
           /\ registry' = registry
           /\ <<services, singletons, factories>>' = <<services, singletons, factories>>
           /\ initialized' = initialized
           /\ dNextId' = dNextId
           /\ instantiated' = <<>>
           /\ routeVar' = routeVar
           /\ endpoints' = endpoints]_vars

\* a second register_features call ran discovery on the namespace without
\* service module while the registry held a service
C15_Witness ==
    /\ calls = 2
    /\ callList = <<"bare">>
    /\ attempted = <<"bare">>
    /\ discRet = "true"
    /\ instantiated = <<>>
    /\ registry["health"] # NoObj

C17_RegisteredAreInitialized ==
    /\ \A n \in DOMAIN registry :
          registry[n] # NoObj => registry[n] \in initialized
    /\ pc \in {"register", "interfaces", "routes"} => curInst \in initialized

\* the registry holds a service and the initialize() of another failed
C17_Witness ==
    /\ failAt.step = "initialize"
    /\ \E n \in DOMAIN registry : registry[n] # NoObj
    /\ dNextId - 1 > Cardinality(initialized)

\* C18: register_service(name, inst) returning true leaves get_service(name)
\* = inst, whatever was stored under name before, and the Container resolves
\* type(inst) to inst without constructing; every other name keeps its
\* instance.
C18_LastWriterWins ==
    [][(pc = "register") =>
         /\ registry'[ServiceName(Head(classList))] = curInst
         /\ \A n \in DOMAIN registry :
               n # ServiceName(Head(classList)) => registry'[n] = registry[n]
         /\ ~(ResolveOutcome(Head(classList)).err)'
         /\ (ResolveOutcome(Head(classList)).ret)' = curInst
         /\ (ResolveOutcome(Head(classList)).made)' = 0]_vars

\* register_service replaced the instance stored under the name by an earlier
\* call, while another name holds its instance
C18_Witness ==
    /\ pc = "interfaces"
    /\ registry[ServiceName(Head(classList))] = curInst
    /\ \E o \in initialized : o.by = curInst.by /\ o # curInst
    /\ \E n \in DOMAIN registry :
          n # ServiceName(Head(classList)) /\ registry[n] # NoObj

\* ------------------------------------------------------------------------
\* InterfaceRegistrationManager (SpecInterfaces)
\* ------------------------------------------------------------------------
\* the capability types of a detected list
CapsOf(list) == {list[i] : i \in DOMAIN list}

\* C19: register_service_interfaces returns true iff detection did not raise
\* and every detected capability was registered without error (true when
\* none is detected); it answers false, and does not raise, in the other
\* cases.
C19_TrueIffAllRegistered ==
    /\ ifLast.ret \in BOOLEAN
    /\ ifLast.ret <=> (/\ ~ifLast.raised
                       /\ CapsOf(ifLast.list) \cap ifLast.failing = {})

\* a call detected two capabilities, registered one, and returned false
C19_Witness ==
    /\ ifLast.cls # "-"
    /\ Cardinality(CapsOf(ifLast.list)) = 2
    /\ Cardinality(ifLast.failing) = 1
    /\ ~ifLast.ret

\* C20: when the service implements two capabilities and register_instance
\* throws for one of them, the other is registered and resolves to the service
\* instance after the call, the success count is 1 out of 2, and every
\* detected capability was tried, those after the failing one included.
C20_PartialSuccessOneOfTwo ==
    (/\ ifLast.cls # "-"
     /\ ~ifLast.raised
     /\ Cardinality(CapsOf(ifLast.list)) = 2
     /\ Cardinality(ifLast.failing) = 1) =>
        /\ \A c \in CapsOf(ifLast.list) \ ifLast.failing :
              ifLast.tab[c] = ifLast.inst
        /\ ifLast.tried = ifLast.list
        /\ ifLast.count = 1
        /\ ifLast.total = 2

\* ------------------------------------------------------------------------
\* FeatureManager (SpecDiscovery)
\* ------------------------------------------------------------------------
\* C21: FeatureManager holds a record for a feature, with status 'active', iff
\* a register_features call ran that feature's discovery and it returned
\* success: a record appears only when the discovery of the feature returns
\* true, it appears then, and it never goes away or changes; a failed
\* discovery stores nothing and register_features returns false. After
\* register_features on only a feature whose initialize() fails or raises, the
\* call has returned false and total_features is 0.
C21_RecordIffDiscoverySucceeded ==
    [][LET returned ==
               \/ /\ pc \in {"class", "initialize", "register", "interfaces", "routes"}
                  /\ pc' \in {"feature", "idle"}
               \/ /\ pc = "feature"
                  /\ pc' = "feature"
                  /\ attempted' # attempted
       IN /\ \A f \in Features :
                /\ features'[f] \in {"none", "active"}
                /\ features[f] = "active" => features'[f] = "active"
                /\ features'[f] # features[f] =>
                       (returned /\ f = Head(fmList) /\ discRet' = "true")
          /\ (returned /\ discRet' = "true") => features'[Head(fmList)] = "active"
          /\ (returned /\ discRet' = "false") =>
                (features' = features /\ rfRet' = "false" /\ pc' = "idle")
          /\ (/\ pc' = "idle"
              /\ calls' = 1
              /\ Len(callList') = 1
              /\ failAt'.step = "initialize") =>
                 /\ rfRet' = "false"
                 /\ (get_features_status.total_features)' = 0]_vars

\* the first register_features call, on the health feature alone, returned
\* false because initialize() of its service failed: no record is held
C21_Witness ==
    /\ pc = "idle"
    /\ calls = 1
    /\ callList = <<"health">>
    /\ failAt.step = "initialize"
    /\ rfRet = "false"
    /\ get_features_status.total_features = 0

C23_InstantiatedOnceNeverReplaced ==
    [][/\ \A o1, o2 \in initialized' : o1.by = o2.by => o1 = o2
       /\ \A n \in DOMAIN registry :
             registry[n] # NoObj => registry'[n] = registry[n]]_vars

\* ------------------------------------------------------------------------
\* Application (SpecApplication)
\* ------------------------------------------------------------------------
\* what the start call in progress did last ("-" when nothing yet)
LastEvent(log) == IF log = <<>> THEN "-" ELSE log[Len(log)]

\* the events of a start call
EventsOf(log) == {log[i] : i \in 1..Len(log)}

\* the events with which a start call fails
FailureEvents == {"register_failed", "register_raised", "configure_raised"}

\* C24: Application.start runs its steps in order: the shell configurator is
\* invoked only after register_features returned true (or when no features
\* were given), and is_initialized becomes true only after the configurator
\* completed; when register_features returns false the configurator is not
\* invoked in that call.
C24_StartOrder ==
    [][/\ (appPc = "configure" /\ appPc' # "configure") =>
             \/ startList = <<>> /\ calls = callsAtStart /\ startLog = <<>>
             \/ /\ startList # <<>>
                /\ calls = callsAtStart + 1
                /\ pc = "idle"
                /\ rfRet = "true"
                /\ startLog = <<"registered">>
       /\ (appInit' /\ ~appInit) => LastEvent(startLog) = "configured"
       /\ (appPc = "register" /\ pc = "idle" /\ calls = callsAtStart + 1
              /\ rfRet = "false") => (appPc' = "idle" /\ startRet' = "false")
       /\ "register_failed" \in EventsOf(startLog') =>
             EventsOf(startLog') \cap {"configured", "configure_raised"} = {}]_vars

\* a start given features ran register_features, then the configurator, then
\* set the flag
C24_Witness ==
    /\ appPc = "idle"
    /\ startList # <<>>
    /\ startLog = <<"registered", "configured", "initialized">>
    /\ startRet = "true"
    /\ appInit

\* C25: Application.start never lets an exception escape: it always returns
\* true or false; when register_features returns false or raises, or the
\* configurator raises, start returns false and that call does not set
\* is_initialized; start returns true only when that call set is_initialized
\* to true.
C25_StartReturnsBoolean ==
    [][/\ startRet' \in {"none", "true", "false"}
       /\ (startLog' # startLog /\ LastEvent(startLog') \in FailureEvents) =>
             /\ appPc' = "idle"
             /\ startRet' = "false"
             /\ appInit' = appInit
             /\ "initialized" \notin EventsOf(startLog')
       /\ (appPc # "idle" /\ appPc' = "idle") =>
             /\ startRet' \in {"true", "false"}
             /\ (startRet' = "false") <=> (LastEvent(startLog') \in FailureEvents)
             /\ (startRet' = "true") =>
                   (appPc = "flag" /\ appInit' /\ LastEvent(startLog') = "initialized")
       /\ appInit' # appInit =>
             (startLog' = Append(startLog, "initialized") /\ startRet' = "true")]_vars

\* a start given features returned false because the configurator raised,
\* and the application is not initialized
C25_Witness ==
    /\ appPc = "idle"
    /\ startList # <<>>
    /\ startLog = <<"registered", "configure_raised">>
    /\ startRet = "false"
    /\ ~appInit

\* ------------------------------------------------------------------------
\* SingletonFactory and threads (SpecThreads)
\* ------------------------------------------------------------------------
\* the threads whose get_instance call on factory fid invoked the factory
\* function
Invokers(fid) == {t \in Threads : tfid[t] = fid /\ tobj[t] # NoObj}

\* the threads whose get_instance call on factory fid has returned
Returned(fid) == {t \in Threads : tfid[t] = fid /\ tpc[t] = "done"}

\* C26: SingletonFactory.get_instance is thread-safe: for every interleaving
\* of concurrent get_instance calls on a factory that has no cached instance,
\* the factory function is invoked exactly once and all callers receive the
\* same instance.
C26_ThreadSafeGetInstance ==
    \A fid \in 1..Len(sfFunc) :
        /\ Cardinality(Invokers(fid)) <= 1
        /\ Returned(fid) # {} => Cardinality(Invokers(fid)) = 1
        /\ \A t, u \in Returned(fid) : tret[t] = tret[u]

\* ------------------------------------------------------------------------
\* Discovery, the order of the steps (SpecDiscovery)
\* ------------------------------------------------------------------------
\* C27: for each detected service type, discovery performs its steps strictly
\* in the order instantiate, initialize, register in the ServiceRegistry,
\* register capabilities in the Container, bind routes, and completes them for
\* one service type before instantiating the next; so an endpoint class is
\* never instantiated for a service before that service is in the registry and
\* its capabilities have been registered.
C27_StepsInOrder ==
    [][/\ (pc = "class" /\ classList # <<>>) => pc' \in {"initialize", "idle"}
       /\ pc = "initialize" => pc' \in {"register", "idle"}
       /\ pc = "register" =>
             (pc' = "interfaces" /\ registry'[ServiceName(Head(classList))] = curInst)
       /\ pc = "interfaces" =>
             (pc' = "routes" /\ ifLast'.cls = Head(classList) /\ ifLast'.inst = curInst)
       /\ pc = "routes" => (pc' = "class" /\ classList' = Tail(classList))
       /\ dNextId' # dNextId =>
             /\ pc = "class"
             /\ curInst = NoObj
             /\ instantiated' = Append(instantiated, Head(classList))
             /\ \A i \in 1..Len(instantiated) :
                   /\ registry[ServiceName(instantiated[i])].by = instantiated[i]
                   /\ registry[ServiceName(instantiated[i])] \in initialized
       /\ (endpoints' # endpoints \/ routeVar' # routeVar) =>
             /\ pc = "routes"
             /\ curInst \in initialized
             /\ registry[ServiceName(Head(classList))] = curInst
             /\ ifLast.cls = Head(classList)
             /\ ifLast.inst = curInst
             /\ ifLast.tried = get_interfaces(Head(classList))]_vars

\* the endpoint class of the health namespace was built for the service that
\* is in the registry and under its capability in the Container
C27_Witness ==
    /\ pc = "class"
    /\ endpoints["HealthRoutes"] > 0
    /\ rtLast = "bound"
    /\ ifLast.cls = "HealthService"
    /\ registry["health"] = ifLast.inst
    /\ singletons["IHealthService"] = ifLast.inst

\* ------------------------------------------------------------------------
\* Container, the reads (SpecContainer)
\* ------------------------------------------------------------------------
\* C28: the only read that changes Container state is resolve(c) for a
\* singleton-class capability whose instance has not been constructed yet (it
\* stores the new instance under c); is_registered, resolve through a
\* registered instance, resolve of an already constructed singleton, resolve
\* through a factory, and a failing resolve all leave the three tables
\* unchanged.
C28_OnlyMutatingRead ==
    [][(cLast'.op \in {"resolve", "is_registered"}) =>
          /\ services' = services
          /\ factories' = factories
          /\ IF /\ cLast'.op = "resolve"
                /\ singletons[cLast'.cap] = NoObj
                /\ services[cLast'.cap] # None
             THEN /\ singletons' = [singletons EXCEPT ![cLast'.cap] = cLast'.ret]
                  /\ singletons' # singletons
                  /\ cLast'.ret = [id |-> nextId, by |-> services[cLast'.cap]]
             ELSE singletons' = singletons]_vars

\* resolve has just constructed and stored the singleton of one capability
\* while another capability is held by a factory alone
C28_Witness ==
    /\ cLast.op = "resolve"
    /\ ~cLast.err
    /\ services[cLast.cap] # None
    /\ singletons[cLast.cap] = cLast.ret
    /\ cLast.ret.id = nextId - 1
    /\ regInst[cLast.cap] = NoObj
    /\ \E d \in Caps \ {cLast.cap} :
          factories[d] # None /\ services[d] = None /\ singletons[d] = NoObj

\* C29: every capability under which the default strategy registers a service
\* instance in the Container is an ancestor of the service type that (a)
\* declares at least one abstract operation, (b) is not the base service
\* implementation, and (c) follows the naming convention of capabilities (its
\* name begins with 'I'); no ancestor failing one of the three becomes a key.
C29_KeysAreNamedAbstractAncestors ==
    \A t \in Types :
        detCall.tab[t] # NoObj =>
            /\ t # detCall.cls
            /\ \E i \in 1..Len(Mro(detCall.cls)) : Mro(detCall.cls)[i] = t
            /\ AbstractMethods(t) # {}
            /\ t # "BaseService"
            /\ follows_interface_naming_convention(t)

\* C30 as claimed: get_service_classes(namespace) returns exactly the class
\* members of the namespace that pass is_service_class, each once, in the
\* order in which the namespace declares them.
C30_InDeclarationOrder ==
    LET decl == SelectSeq(scanNs, LAMBDA m : IsClass(m.obj) /\ is_service_class(m.obj))
    IN /\ scanRet.classes = [i \in 1..Len(decl) |-> decl[i].obj]
       /\ \A i, j \in 1..Len(scanRet.classes) :
              i # j => scanRet.classes[i] # scanRet.classes[j]

\* C30: get_service_classes(namespace) returns the class members of the
\* namespace that pass is_service_class, once for each member name bound to
\* such a class, in ascending order of the member names.
C30_InOrderOfMemberName ==
    LET n == Len(scanRet.classes)
    IN /\ Len(scanRet.logged) = n
       /\ \A i \in 1..n :
              /\ Member(scanRet.logged[i], scanRet.classes[i]) \in MembersOf(scanNs)
              /\ IsClass(scanRet.classes[i])
              /\ is_service_class(scanRet.classes[i])
       /\ \A m \in MembersOf(scanNs) :
              IsClass(m.obj) /\ is_service_class(m.obj) =>
                  \E i \in 1..n : scanRet.logged[i] = m.name
       /\ \A i, j \in 1..n :
              i < j => NameLess(Chars(scanRet.logged[i]), Chars(scanRet.logged[j]))

\* a namespace that declares BetaService, then a second name for
\* AlphaService, then AlphaService was scanned
C30_Witness ==
    /\ scanNs = <<Member("BetaService", "BetaService"),
                  Member("Svc", "AlphaService"),
                  Member("AlphaService", "AlphaService")>>
    /\ scanRet.classes = <<"AlphaService", "BetaService", "AlphaService">>

\* C39: once resolve(c) has constructed and cached the singleton of a class
\* registered for c, no call other than clear() and register_instance(c, .)
\* changes what resolve(c) returns; in particular a later
\* register(c, OtherImpl, singleton=True) leaves the constructed instance the
\* one resolve(c) returns.
C39_CachedSingletonSurvivesRegister ==
    [][\A c \in Caps :
          (/\ singletons[c] # NoObj
           /\ singletons[c].by \in Impls
           /\ cLast'.op # "clear"
           /\ ~(cLast'.op = "register_instance" /\ cLast'.cap = c))
          => /\ (ResolveOutcome(c).ret)' = singletons[c]
             /\ (ResolveOutcome(c).err)' = FALSE]_vars

\* register(c, OtherImpl, True) was called after resolve(c) cached an instance
\* of the class registered before
C39_Witness ==
    \E c \in Caps :
        /\ cLast.op = "register"
        /\ cLast.cap = c
        /\ singletons[c] # NoObj
        /\ singletons[c].by \in Impls
        /\ services[c] \in Impls
        /\ services[c] # singletons[c].by
        /\ ResolveOutcome(c).ret = singletons[c]

\* C40: in every reachable Container state and for every capability c,
\* is_registered(c) is true exactly when resolve(c) would not raise the
\* not-registered ValueError.
C40_RegisteredIffResolvable ==
    \A c \in Keys : is_registered(c) <=> ~ResolveOutcome(c).err

\* one capability is held by the factory table alone and another by no table
C40_Witness ==
    \E c, d \in Caps :
        /\ factories[c] # None
        /\ services[c] = None
        /\ singletons[c] = NoObj
        /\ is_registered(c)
        /\ ~is_registered(d)
        /\ ResolveOutcome(d).err

\* C38: when the import of the service module of a feature raises ImportError
\* (the module is absent, or an import inside the module fails), discovery
\* returns true and the FeatureManager records the feature as 'active'; the
\* call instantiates nothing and stores no service in the ServiceRegistry.
C38_ImportErrorIsNoServiceLayer ==
    [][(/\ pc = "feature"
        /\ fmList # <<>>
        /\ pc' # "class") =>
           /\ discRet' = "true"
           /\ features'[Head(fmList)] = "active"
           /\ registry' = registry
           /\ regOrder' = regOrder
           /\ instantiated' = <<>>]_vars

\* the health feature is recorded as active after an import inside its service
\* module failed, and the ServiceRegistry holds no health service
C38_Witness ==
    /\ features["health"] = "active"
    /\ registry["health"] = NoObj
    /\ regOrder = <<>>
    /\ attempted = <<"health">>
    /\ discRet = "true"
    /\ get_features_status.total_features = 1

\* ------------------------------------------------------------------------
\* Route binding (SpecDiscovery, SpecApplication)
\* ------------------------------------------------------------------------
\* the setup_routes calls made for feature f in the call in progress
RouteCallsOf(f) == SelectSeq(rtLog, LAMBDA e : e.feature = f)

\* C31: endpoint dependency injection is fail-fast: when a capability an
\* endpoint class requires cannot be resolved from the Container or resolves
\* to a service that is not initialized, startup fails: neither the
\* register_features call nor the Application.start that made it reports
\* success.
C31_InjectionFailureFailsStartup ==
    (\E i \in 1..Len(rtLog) : rtLog[i].failed \in RouteClassNames) =>
        /\ rfRet # "true"
        /\ ~(startList # <<>> /\ startRet = "true")

\* C36: route binding runs once per registered service: while the services of
\* a namespace are registered, one setup_routes call was made for each service
\* registered so far, in order; each call that meets no failure instantiates
\* every endpoint class of the routes namespace once more, so that a namespace
\* with n registered services has each endpoint class instantiated n times.
C36_RoutesBoundPerService ==
    [][/\ pc' = "class" =>
             /\ Len(RouteCallsOf(Head(fmList))') = Len(instantiated')
             /\ \A i \in 1..Len(instantiated') :
                   RouteCallsOf(Head(fmList))'[i].service = ServiceName(instantiated'[i])
       /\ (Len(rtLog') > Len(rtLog) /\ rtLast' = "bound") =>
             /\ pc = "routes"
             /\ rtLog'[Len(rtLog')].built = RouteClasses(Head(fmList))
             /\ \A rc \in RouteClassNames :
                   endpoints'[rc] =
                      IF \E k \in 1..Len(RouteClasses(Head(fmList))) :
                            RouteClasses(Head(fmList))[k] = rc
                      THEN endpoints[rc] + 1 ELSE endpoints[rc]]_vars

\* the first call registered the health namespace and then the two services
\* of the pair namespace without failure: three setup_routes calls, and each
\* endpoint class of the pair namespace was built twice
C36_Witness ==
    /\ pc = "idle"
    /\ calls = 1
    /\ rfRet = "true"
    /\ callList = <<"health", "pair">>
    /\ Len(RouteCallsOf("pair")) = 2
    /\ \A i \in 1..Len(rtLog) : rtLog[i].failed = "-"
    /\ endpoints = [rc \in RouteClassNames |-> IF rc = "HealthRoutes" THEN 1 ELSE 2]

C34_EndpointReportsStartedApplication ==
    [][apiRet' # apiRet =>
          /\ appInit => /\ apiRet'.success
                        /\ apiRet'.data = {get_status("startup")}
          /\ (apiRet'.error = "Application not initialized")
                 <=> ~is_initialized(apiApp')]_vars

\* C34, the case: the endpoint was called after the startup Application had
\* started successfully
C34_Witness ==
    /\ appInit
    /\ startRet = "true"
    /\ apiRet.called

\* ------------------------------------------------------------------------
\* The process-wide Container and ServiceRegistry (SpecProcess)
\* ------------------------------------------------------------------------
\* the step is a register_service call
IsRegisterServiceStep == pCalls' # pCalls /\ pLast'.op = "register_service"

\* get_service(name) on the registry of the last register_service call
GetServiceOfLast == get_service(pLast.reg, pLast.name)

\* get_container().resolve(type(inst)) for the instance of the last call
ResolveOfLast == ResolveInCurrent(pLast.inst.by)

\* C35: when register_service(name, inst) returns False, the registry is as it
\* was before the call: its table and its keys are unchanged and
\* get_service(name) does not return inst
C35_FailedRegisterLeavesRegistry ==
    [][IsRegisterServiceStep /\ ~pLast'.ret =>
          /\ pRegistries'[pLast'.reg] = pRegistries[pLast'.reg]
          /\ GetServiceOfLast' # pLast'.inst]_vars

\* C32: whenever register_service(name, inst) returns True, resolving
\* type(inst) on the Container that get_container() returns after the call
\* gives inst, whatever reset_container() calls were made since the registry
\* was built
C32_MirrorsIntoCurrentContainer ==
    [][IsRegisterServiceStep /\ pLast'.ret =>
          /\ ~ResolveOfLast'.err
          /\ ResolveOfLast'.ret = pLast'.inst]_vars

\* C33: after a register_features call, get_features_status()['services'] of
\* every FeatureManager built so far is the list of the services of the
\* ServiceRegistry that get_service_registry() returns, those of the feature
\* just registered included
C33_StatusListsCurrentRegistry ==
    [][pCalls' # pCalls /\ pLast'.op = "register_features" =>
          \A m \in 1..Len(pManagers) :
              /\ StatusServices(m)' = pRegistries'[held'["service_registry"]].order
              /\ \A k \in 1..Len(get_service_classes(pLast'.feature)) :
                     \E i \in 1..Len(StatusServices(m)') :
                         StatusServices(m)'[i] =
                             ServiceName(get_service_classes(pLast'.feature)[k])]_vars

====
